---- MODULE Spec2Model ----
(***************************************************************************)
(* Semi-dense depth map of lsd_slam (depth_estimation/depth_map.cc).       *)
(*                                                                         *)
(* The map is a W x H grid of pixel hypotheses held in two buffers         *)
(* (currentDepthMap, otherDepthMap) plus the validity integral buffer.     *)
(* Every public method of DepthMap is one action; the phases it calls      *)
(* (observeDepth, regularizeDepthMapFillHoles, regularizeDepthMap,         *)
(* propagateDepth) are operators from maps to maps, composed in the order  *)
(* of the calls.                                                           *)
(*                                                                         *)
(* Numbers.  The code computes in float.  The model computes in rationals   *)
(* <<n, d>> with d > 0, extended by <<1,0>> (+inf), <<-1,0>> (-inf) and    *)
(* <<0,0>> (NaN) so that a division by zero yields what the float          *)
(* division yields.  A result is exact while |n| and d stay below          *)
(* FloatRange; beyond it the result is rounded toward zero to the          *)
(* precision that range allows (overflowing to inf, underflowing to 0),    *)
(* a float with a short mantissa.  Signed zeros are not modelled.          *)
(***************************************************************************)
EXTENDS Integers, Sequences, FiniteSets, TLC

(***************************** rationals ***********************************)
Abs(n) == IF n < 0 THEN -n ELSE n
Sgn(n) == IF n < 0 THEN -1 ELSE IF n > 0 THEN 1 ELSE 0

RECURSIVE Gcd(_, _)
Gcd(a, b) == IF b = 0 THEN a ELSE Gcd(b, a % b)

\* the precision of the arithmetic: numerators and denominators stay below it
FloatRange == 32768
\* n/d in lowest terms with d > 0
Reduce(n, d, g) == <<Sgn(d) * (n \div g), Abs(d) \div g>>
RECURSIVE Halve(_, _)
\* n/d (n >= 0, d > 0) with both halved until they are in range
Halve(n, d) ==
    IF n < FloatRange /\ d < FloatRange THEN <<n, d>> ELSE Halve(n \div 2, d \div 2)
\* the rounding of a finite a in lowest terms: overflow to +-inf, underflow to 0
Rounded(sign, h) ==
    IF h[2] = 0 THEN <<sign, 0>>
    ELSE IF h[1] = 0 THEN <<0, 1>>
    ELSE Reduce(sign * h[1], h[2], Gcd(h[1], h[2]))
Round(a) ==
    IF Abs(a[1]) < FloatRange /\ a[2] < FloatRange THEN a
    ELSE Rounded(Sgn(a[1]), Halve(Abs(a[1]), a[2]))
\* the canonical form of n/d; d = 0 gives inf / NaN
Norm(n, d) ==
    IF d = 0 THEN <<Sgn(n), 0>>
    ELSE IF n = 0 THEN <<0, 1>>
    ELSE Round(Reduce(n, d, Gcd(Abs(n), Abs(d))))

R(n, d) == Norm(n, d)
RInt(n) == <<n, 1>>
NaN     == <<0, 0>>
PosInf  == <<1, 0>>
NegInf  == <<-1, 0>>
IsNaN(a)    == a = NaN
IsFinite(a) == a[2] # 0

RNeg(a) == <<-a[1], a[2]>>
\* a + b for finite a, b with g the gcd of the denominators
AddFinite(a, b, g) ==
    Norm(a[1] * (b[2] \div g) + b[1] * (a[2] \div g), (a[2] \div g) * b[2])
RAdd(a, b) ==
    IF a[2] # 0 /\ b[2] # 0 THEN AddFinite(a, b, Gcd(a[2], b[2]))
    ELSE IF IsNaN(a) \/ IsNaN(b) THEN NaN
    ELSE IF a[2] = 0 /\ b[2] = 0 THEN (IF a = b THEN a ELSE NaN)
    ELSE IF a[2] = 0 THEN a ELSE b
RSub(a, b) == RAdd(a, RNeg(b))
\* a * b for finite a, b, reduced crosswise by g1 = gcd(|a1|, b2), g2 = gcd(|b1|, a2)
MulFinite(a, b, g1, g2) ==
    Round(<<(a[1] \div g1) * (b[1] \div g2), (a[2] \div g2) * (b[2] \div g1)>>)
RMul(a, b) ==
    IF a[2] = 0 \/ b[2] = 0 THEN <<Sgn(a[1]) * Sgn(b[1]), 0>>
    ELSE MulFinite(a, b, Gcd(Abs(a[1]), b[2]), Gcd(Abs(b[1]), a[2]))
\* 1/a as the float division gives it: 1/0 = +inf, 1/inf = 0, 1/NaN = NaN
RInv(a) ==
    IF IsNaN(a) THEN NaN
    ELSE IF a[2] = 0 THEN <<0, 1>>
    ELSE IF a[1] = 0 THEN PosInf
    ELSE <<Sgn(a[1]) * a[2], Abs(a[1])>>
RDiv(a, b) ==
    IF a[1] = 0 /\ b[1] = 0 /\ a[2] # 0 /\ b[2] # 0 THEN NaN   \* 0/0
    ELSE RMul(a, RInv(b))
RECURSIVE LtPos(_, _, _, _)
\* n1/d1 < n2/d2 for n1, n2 >= 0 and d1, d2 > 0, by continued fractions (no products)
LtPos(n1, d1, n2, d2) ==
    IF n1 \div d1 # n2 \div d2 THEN n1 \div d1 < n2 \div d2
    ELSE IF n2 % d2 = 0 THEN FALSE
    ELSE IF n1 % d1 = 0 THEN TRUE
    ELSE LtPos(d2, n2 % d2, d1, n1 % d1)
\* comparisons are false when an operand is NaN, as in IEEE arithmetic
RLt(a, b) ==
    IF IsNaN(a) \/ IsNaN(b) THEN FALSE
    ELSE IF a[2] = 0 \/ b[2] = 0
         THEN a # b /\ (a = NegInf \/ b = PosInf)
    ELSE IF a[1] < 0 /\ b[1] >= 0 THEN TRUE
    ELSE IF a[1] >= 0 /\ b[1] < 0 THEN FALSE
    ELSE IF a[1] >= 0 THEN LtPos(a[1], a[2], b[1], b[2])
    ELSE LtPos(-b[1], b[2], -a[1], a[2])
RGt(a, b) == RLt(b, a)
RLe(a, b) == ~IsNaN(a) /\ ~IsNaN(b) /\ ~RLt(b, a)
RGe(a, b) == RLe(b, a)
Zero == <<0, 1>>
One  == <<1, 1>>
RSq(a) == RMul(a, a)
\* (int)(a) of a finite float: truncation toward zero
RTrunc(a) == IF a[1] >= 0 THEN a[1] \div a[2] ELSE -((-a[1]) \div a[2])

(************************** settings (util/settings.h) *********************)
\* tuning constants of util/settings.h, which the code reads by name
MAX_VAR                 == R(1, 4)         \* 0.5f*0.5f
VAR_RANDOM_INIT_INITIAL == R(1, 8)         \* 0.5f*MAX_VAR
VAR_GT_INIT_INITIAL     == R(1, 64)        \* small ground-truth variance (dyadic)
SUCC_VAR_INC_FAC        == R(9, 8)         \* prediction-noise factor > 1 (dyadic)
FAIL_VAR_INC_FAC        == R(5, 4)         \* failure inflation factor > 1 (dyadic)
INV_MIN_DEPTH           == R(20, 1)        \* 1/MIN_DEPTH, MIN_DEPTH = 0.05f
DIFF_FAC_SMOOTHING      == R(1, 1)
DIFF_FAC_OBSERVE        == R(1, 1)
DIFF_FAC_PROP_MERGE     == R(1, 1)
MAX_ERROR_STEREO        == RInt(1300)
MIN_DISTANCE_ERROR_STEREO == R(3, 2)
REG_DIST_VAR            == R(1, 8)         \* spatial variance per squared pixel (dyadic)
MAX_DIFF_CONSTANT       == R(1600, 1)      \* 40.0f*40.0f
MAX_DIFF_GRAD_MULT      == R(1, 4)         \* 0.5f*0.5f
MIN_EPL_LENGTH_CROP     == R(3, 1)
UNZERO_EPS              == R(1, 64)        \* the epsilon of UNZERO
MIN_ABS_GRAD_CREATE     == 5
MIN_ABS_GRAD_DECREASE   == 5
MIN_BLACKLIST           == -1
VALIDITY_COUNTER_MAX          == 5
VALIDITY_COUNTER_MAX_VARIABLE == 250
VALIDITY_COUNTER_INC          == 5
VALIDITY_COUNTER_DEC          == 5
VALIDITY_COUNTER_INITIAL_OBSERVE == 5
VAL_SUM_MIN_FOR_CREATE        == 30
VAL_SUM_MIN_FOR_KEEP          == 24
VAL_SUM_MIN_FOR_UNBLACKLIST   == 100
SE3TRACKING_MIN_LEVEL         == 1

\* UNZERO(val): |val| lifted to the epsilon, sign kept (0 counts as positive)
UNZERO(val) ==
    IF val[1] < 0
    THEN (IF RLt(RNeg(UNZERO_EPS), val) THEN RNeg(UNZERO_EPS) ELSE val)
    ELSE (IF RLt(val, UNZERO_EPS) THEN UNZERO_EPS ELSE val)

(****************************** the grid ***********************************)
W == 7
H == 8
Cells == 0 .. (W * H - 1)
Idx(x, y) == x + y * W
XOf(idx) == idx % W
YOf(idx) == idx \div W

\* DepthMapPixelHypothesis(): an invalid cell
HypInvalid ==
    [isValid |-> FALSE, blacklisted |-> 0, nextStereoFrameMinID |-> 0,
     validity_counter |-> 0, idepth |-> Zero, idepth_var |-> Zero,
     idepth_smoothed |-> Zero, idepth_var_smoothed |-> Zero]
\* DepthMapPixelHypothesis(idepth, idepth_var, validity_counter)
Hyp3(id, var, val) ==
    [isValid |-> TRUE, blacklisted |-> 0, nextStereoFrameMinID |-> 0,
     validity_counter |-> val, idepth |-> id, idepth_var |-> var,
     idepth_smoothed |-> RInt(-1), idepth_var_smoothed |-> RInt(-1)]
\* DepthMapPixelHypothesis(idepth, idepth_smoothed, var, var_smoothed, validity)
Hyp5(id, ids, var, vars, val) ==
    [isValid |-> TRUE, blacklisted |-> 0, nextStereoFrameMinID |-> 0,
     validity_counter |-> val, idepth |-> id, idepth_var |-> var,
     idepth_smoothed |-> ids, idepth_var_smoothed |-> vars]

(***************************** helpers *************************************)
RECURSIVE RSumOver(_, _)
\* the sum of f[i] (rationals) over the finite set S
RSumOver(f, S) ==
    IF S = {} THEN Zero
    ELSE LET i == CHOOSE j \in S : \A k \in S : j <= k
         IN  RAdd(f[i], RSumOver(f, S \ {i}))
RECURSIVE ISumOver(_, _)
\* the sum of f[i] (integers) over the finite set S
ISumOver(f, S) ==
    IF S = {} THEN 0
    ELSE LET i == CHOOSE j \in S : TRUE
         IN  f[i] + ISumOver(f, S \ {i})

\* the cells of the 5x5 window centred at idx (the callers keep it in the grid)
Window5(idx) ==
    { Idx(x, y) : x \in (XOf(idx) - 2) .. (XOf(idx) + 2),
                  y \in (YOf(idx) - 2) .. (YOf(idx) + 2) }

\* the array a map-valued expression denotes, computed cell by cell once
Stored(map) == map @@ << >>

(*********************** validity integral buffer **************************)
\* buildRegIntegralBufferRow1: per row, the running sum of validity_counter
\* over the valid cells
RECURSIVE buildRegIntegralBufferRow1_AllCells(_, _, _)
\* the running row sum without the isValid test
buildRegIntegralBufferRow1_AllCells(map, x, y) ==
    IF x < 0 THEN 0
    ELSE buildRegIntegralBufferRow1_AllCells(map, x - 1, y) + map[Idx(x, y)].validity_counter
RECURSIVE buildRegIntegralBufferRow1(_, _, _)
\* the running sum validityIntegralBufferSUM of row y when the inner loop has stored column x
buildRegIntegralBufferRow1(map, x, y) ==
    IF x < 0 THEN 0
    ELSE buildRegIntegralBufferRow1(map, x - 1, y)
         + (IF map[Idx(x, y)].isValid THEN map[Idx(x, y)].validity_counter ELSE 0)
RECURSIVE ColumnPass(_, _)
\* the sequential pass "buf[idx] += buf[idx - width]" for idx = width .. wh-1: the cell
\* above has taken its final value when idx reads it
ColumnPass(rows, idx) ==
    IF idx < W THEN rows[idx] ELSE rows[idx] + ColumnPass(rows, idx - W)
buildRegIntegralBuffer(map) ==
    LET rows == Stored([idx \in Cells |-> buildRegIntegralBufferRow1(map, XOf(idx), YOf(idx))])
    IN  Stored([idx \in Cells |-> ColumnPass(rows, idx)])

\* val = io[2+2*width] - io[2-3*width] - io[-3+2*width] + io[-3-3*width]
WindowVal(io, idx) ==
    io[idx + 2 + 2 * W] - io[idx + 2 - 3 * W] - io[idx - 3 + 2 * W] + io[idx - 3 - 3 * W]

(***************************** fill holes **********************************)
\* the cells regularizeDepthMapFillHolesRow visits: y in [3, height-2), x in [3, width-2)
FillCells == { idx \in Cells : XOf(idx) >= 3 /\ XOf(idx) < W - 2 /\ YOf(idx) >= 3 /\ YOf(idx) < H - 2 }

\* hole filling with the creation threshold for every cell, blacklisted or not
FillCreates_OneThreshold(dest, val) == val > VAL_SUM_MIN_FOR_CREATE
\* whether the row pass creates a hypothesis at the invalid cell dest given val
FillCreates(dest, val) ==
    (dest.blacklisted >= MIN_BLACKLIST /\ val > VAL_SUM_MIN_FOR_CREATE)
        \/ val > VAL_SUM_MIN_FOR_UNBLACKLIST

\* hole filling with the plain mean of the valid neighbours
FillHypothesis_PlainMean(other, idx) ==
    Hyp3(UNZERO(RDiv(RSumOver([j \in Cells |-> other[j].idepth],
                              { j \in Window5(idx) : other[j].isValid }),
                     RInt(Cardinality({ j \in Window5(idx) : other[j].isValid })))),
         VAR_RANDOM_INIT_INITIAL, 0)
\* the hypothesis hole filling installs at idx, read from the snapshot other
FillHypothesis(other, idx) ==
    Hyp3(UNZERO(RDiv(RSumOver([j \in Cells |-> RDiv(other[j].idepth, other[j].idepth_var)],
                              { j \in Window5(idx) : other[j].isValid }),
                     RSumOver([j \in Cells |-> RInv(other[j].idepth_var)],
                              { j \in Window5(idx) : other[j].isValid }))),
         VAR_RANDOM_INIT_INITIAL, 0)

regularizeDepthMapFillHolesRow(cur, other, io, grad) ==
    Stored([idx \in Cells |->
        IF idx \in FillCells /\ ~other[idx].isValid
           /\ ~(grad[idx] < MIN_ABS_GRAD_DECREASE)
           /\ FillCreates(other[idx], WindowVal(io, idx))
        THEN FillHypothesis(other, idx)
        ELSE cur[idx]])

\* regularizeDepthMapFillHoles: integral buffer, snapshot, row pass; the new currentDepthMap
regularizeDepthMapFillHoles(cur, grad) ==
    regularizeDepthMapFillHolesRow(cur, cur, buildRegIntegralBuffer(cur), grad)

(****************************** smoothing **********************************)
\* the cells regularizeDepthMapRow visits: y in [2, height-2), x in [2, width-2)
RegCells == { idx \in Cells : XOf(idx) >= 2 /\ XOf(idx) < W - 2 /\ YOf(idx) >= 2 /\ YOf(idx) < H - 2 }

\* the occlusion test between a neighbour and the centre
RegOccludes(source, destRead) ==
    RGt(RMul(DIFF_FAC_SMOOTHING, RSq(RSub(source.idepth, destRead.idepth))),
        RAdd(source.idepth_var, destRead.idepth_var))

\* "ivar = 1.0f/(source->idepth_var + (dx*dx+dy*dy)*regDistVar)" of neighbour j of idx
RegIvar(other, idx, j) ==
    RInv(RAdd(other[j].idepth_var,
              RMul(RInt((XOf(j) - XOf(idx)) * (XOf(j) - XOf(idx))
                        + (YOf(j) - YOf(idx)) * (YOf(j) - YOf(idx))), REG_DIST_VAR)))
\* the valid neighbours that pass the occlusion test and are accumulated
RegKeep(other, idx) ==
    { j \in Window5(idx) : other[j].isValid /\ ~RegOccludes(other[j], other[idx]) }
\* numOccluding: the occluding neighbours nearer than the centre
RegNumOccluding(other, idx) ==
    Cardinality({ j \in Window5(idx) : /\ other[j].isValid
                                       /\ RegOccludes(other[j], other[idx])
                                       /\ RGt(other[j].idepth, other[idx].idepth) })
\* a smoothing that writes the mean into the estimate itself
RegSmoothed_IntoEstimate(dest, sum, sumIvar) ==
    [dest EXCEPT !.idepth = UNZERO(RDiv(sum, sumIvar)),
                 !.idepth_var = RInv(sumIvar)]
\* "sum = UNZERO(sum / sumIvar); idepth_smoothed = sum; idepth_var_smoothed = 1/sumIvar"
RegSmoothed(dest, sum, sumIvar) ==
    [dest EXCEPT !.idepth_smoothed = UNZERO(RDiv(sum, sumIvar)),
                 !.idepth_var_smoothed = RInv(sumIvar)]
\* a tail that applies the occlusion rule in both modes
RegularizeKept_AlwaysRemoves(dest, other, idx, keep, removeOcclusions, validityTH) ==
    IF ISumOver([j \in Cells |-> other[j].validity_counter], keep) < validityTH
    THEN [dest EXCEPT !.isValid = FALSE, !.blacklisted = @ - 1]
    ELSE IF RegNumOccluding(other, idx) > Cardinality(keep)
         THEN [dest EXCEPT !.isValid = FALSE]
    ELSE RegSmoothed(dest,
                     RSumOver([j \in Cells |-> RMul(other[j].idepth, RegIvar(other, idx, j))], keep),
                     RSumOver([j \in Cells |-> RegIvar(other, idx, j)], keep))
\* the tail of one cell, given the accumulated neighbours
RegularizeKept(dest, other, idx, keep, removeOcclusions, validityTH) ==
    IF ISumOver([j \in Cells |-> other[j].validity_counter], keep) < validityTH
    THEN [dest EXCEPT !.isValid = FALSE, !.blacklisted = @ - 1]
    ELSE IF removeOcclusions /\ RegNumOccluding(other, idx) > Cardinality(keep)
         THEN [dest EXCEPT !.isValid = FALSE]
    ELSE RegSmoothed(dest,
                     RSumOver([j \in Cells |-> RMul(other[j].idepth, RegIvar(other, idx, j))], keep),
                     RSumOver([j \in Cells |-> RegIvar(other, idx, j)], keep))
\* one cell of regularizeDepthMapRow<removeOcclusions>: dest (of current) from the snapshot
RegularizeCell(dest, other, idx, removeOcclusions, validityTH) ==
    IF ~other[idx].isValid THEN dest
    ELSE RegularizeKept(dest, other, idx, RegKeep(other, idx), removeOcclusions, validityTH)

\* regularizeDepthMap: snapshot (memcpy), then every row; the new currentDepthMap
regularizeDepthMap(cur, removeOcclusions, validityTH) ==
    Stored([idx \in Cells |->
        IF idx \in RegCells
        THEN RegularizeCell(cur[idx], cur, idx, removeOcclusions, validityTH)
        ELSE cur[idx]])

(******************************* frames ************************************)
\* The frames the host hands to the depth map are a fixed set of test frames;
\* what the depth map reads of a frame (model/frame.h) is a function of its id.
NumFrames == 3
FrameIds  == 1 .. NumFrames

\* Frame::id()
FrameId(f) == f
\* Frame::getTrackingParent(): frame f was tracked on frame f-1 (0: no parent)
TrackingParent(f) == f - 1
\* Frame::hasIDepthBeenSet(): frames that carry ground truth / reactivation data
HasIDepthBeenSet(f) == TRUE

\* Frame::maxGradients(0) at a cell
MaxGradients(f) ==
    [idx \in Cells |->
        LET x == XOf(idx)
            y == YOf(idx)
        IN  IF f % 2 = 1
            THEN (IF <<x, y>> \in {<<2, 3>>, <<3, 2>>} THEN 100
                  ELSE IF <<x, y>> \in {<<3, 3>>, <<3, 4>>} THEN 5
                  ELSE 0)
            ELSE (IF <<x, y>> \in {<<2, 3>>, <<3, 4>>} THEN 255
                  ELSE IF <<x, y>> \in {<<3, 2>>} THEN 6
                  ELSE IF <<x, y>> \in {<<W - 3, H - 3>>} THEN 5
                  ELSE IF <<x, y>> \in {<<3, 3>>, <<4, 3>>} THEN 4
                  ELSE 0)]

\* Frame::image(0) at a cell: a ramp, much steeper in the even frames
Image(f) == [idx \in Cells |-> IF f % 2 = 0 THEN 40 * XOf(idx) ELSE 8 * XOf(idx) + 4 * YOf(idx)]

\* Frame::refPixelWasGoodNoCreate(): no mask for frame 3, else a mask at SE3TRACKING_MIN_LEVEL
HasGoodMask(f) == f % 3 # 0
WasGood(f, mi) == mi # 4

\* the index into the tracking mask of cell (x, y)
MaskIndex(x, y) ==
    (x \div (2 ^ SE3TRACKING_MIN_LEVEL)) + (W \div (2 ^ SE3TRACKING_MIN_LEVEL)) * (y \div (2 ^ SE3TRACKING_MIN_LEVEL))

\* keyframe->numFramesTrackedOnThis (kept by the tracker)
NumFramesTrackedOnThis(f) == 40 * (f % 2)

(************************ stereo (doLineStereo) ****************************)
\* What doLineStereo hands back for one pixel: error (>= 0, or a status code), and
\* on success result_idepth, result_var, result_eplLength.  The search itself reads
\* the two images; here its raw result is an input of the observation.
StereoFail(code) == [error |-> RInt(code), idepth |-> Zero, var |-> Zero, epl |-> Zero]
StereoOk(err, id, var, epl) == [error |-> err, idepth |-> id, var |-> var, epl |-> epl]
RawStereoResults ==
    << StereoOk(RInt(10), One, R(1, 16), RInt(4)),
       StereoFail(-1), StereoFail(-2), StereoFail(-3), StereoFail(-4), StereoFail(-5),
       StereoOk(Zero, Zero, R(1, 16), RInt(1)),
       StereoOk(RInt(3), RInt(2), One, R(5, 2)),
       StereoOk(RInt(3), R(-1, 2), R(1, 16), RInt(4)),
       StereoOk(RInt(3), RInt(20), R(1, 8), RInt(4)) >>
NumStereo == Len(RawStereoResults)

\* the tail of doLineStereo: a negative inverse depth is a -2 unless allowed
doLineStereoResult(raw, allowNeg) ==
    IF RGe(raw.error, Zero) /\ RLt(raw.idepth, Zero) /\ ~allowNeg
    THEN StereoFail(-2)
    ELSE raw

(***************************** observation *********************************)
\* observeDepthRow with its loops started one column and one row early
ObserveCells_FromTwo == { idx \in Cells : XOf(idx) >= 2 /\ XOf(idx) < W - 3 /\ YOf(idx) >= 2 /\ YOf(idx) < H - 3 }
\* the cells observeDepthRow visits: y in [3, height-3), x in [3, width-3)
ObserveCells == { idx \in Cells : XOf(idx) >= 3 /\ XOf(idx) < W - 3 /\ YOf(idx) >= 3 /\ YOf(idx) < H - 3 }

\* "wasGoodDuringTracking != 0 && !wasGoodDuringTracking[...]" for refFrame at cell idx
SkippedNotGoodTracked(refFrame, kf, idx) ==
    /\ TrackingParent(refFrame) = kf
    /\ HasGoodMask(refFrame)
    /\ ~WasGood(refFrame, MaskIndex(XOf(idx), YOf(idx)))

\* "if(error == -3 || error == -2) target->blacklisted--"
CreateBlacklist(target, error) ==
    IF error = RInt(-3) \/ error = RInt(-2)
    THEN [target EXCEPT !.blacklisted = @ - 1] ELSE target
\* observeDepthCreate storing result_idepth as it comes, without UNZERO
observeDepthCreateFrom_Raw(target, st) ==
    IF RLt(st.error, Zero)
    THEN [hyp |-> CreateBlacklist(target, st.error), tag |-> "createFailed"]
    ELSE IF RGt(st.var, MAX_VAR)
         THEN [hyp |-> target, tag |-> "createHighVar"]
    ELSE [hyp |-> Hyp3(st.idepth, st.var, VALIDITY_COUNTER_INITIAL_OBSERVE), tag |-> "created"]
\* observeDepthCreate after the tracking-mask test, with its stereo result
observeDepthCreateFrom(target, st) ==
    IF RLt(st.error, Zero)
    THEN [hyp |-> CreateBlacklist(target, st.error), tag |-> "createFailed"]
    ELSE IF RGt(st.var, MAX_VAR)
         THEN [hyp |-> target, tag |-> "createHighVar"]
    ELSE [hyp |-> Hyp3(UNZERO(st.idepth), st.var, VALIDITY_COUNTER_INITIAL_OBSERVE),
          tag |-> "created"]
\* observeDepthCreate: the new cell and what happened
observeDepthCreate(target, idx, ctx) ==
    IF SkippedNotGoodTracked(IF ctx.reactivated THEN ctx.newest ELSE ctx.oldest, ctx.kf, idx)
    THEN [hyp |-> target, tag |-> "notGoodTracked"]
    ELSE observeDepthCreateFrom(target, ctx.stereo[idx])

\* "VALIDITY_COUNTER_MAX + absGrad*(VALIDITY_COUNTER_MAX_VARIABLE)/255.0f"
ValidityLimit(absGrad) ==
    RAdd(RInt(VALIDITY_COUNTER_MAX), R(absGrad * VALIDITY_COUNTER_MAX_VARIABLE, 255))
\* the upper bound of validity_counter after a successful update, as the int
\* assignment truncates it
ValidityBound(absGrad) == RTrunc(ValidityLimit(absGrad))
\* the increment without the saturation
ValidityInc_Unsaturated(target, absGrad) ==
    [target EXCEPT !.validity_counter = @ + VALIDITY_COUNTER_INC]
\* "increase validity!": += VALIDITY_COUNTER_INC, saturated
ValidityInc(target, absGrad) ==
    [target EXCEPT !.validity_counter =
        IF RGt(RInt(@ + VALIDITY_COUNTER_INC), ValidityLimit(absGrad))
        THEN ValidityBound(absGrad) ELSE @ + VALIDITY_COUNTER_INC]

\* "inc = numFramesTrackedOnThis / (float)(numMappedOnThis+5); if(inc < 3) inc = 3"
SkipIncBase(kf, mapped) ==
    IF RLt(R(NumFramesTrackedOnThis(kf), mapped + 5), RInt(3)) THEN RInt(3)
    ELSE R(NumFramesTrackedOnThis(kf), mapped + 5)
\* the skip increment of a successful update with a short epipolar line
SkipInc(epl, kf, mapped) ==
    IF RLt(epl, RMul(R(1, 2), MIN_EPL_LENGTH_CROP))
    THEN RMul(RAdd(SkipIncBase(kf, mapped), RInt(RTrunc(RMul(epl, RInt(10000))) % 2)), RInt(3))
    ELSE RAdd(SkipIncBase(kf, mapped), RInt(RTrunc(RMul(epl, RInt(10000))) % 2))
\* "increase Skip!"
SkipSet(target, epl, refFrame, kf, mapped) ==
    IF RLt(epl, MIN_EPL_LENGTH_CROP)
    THEN [target EXCEPT !.nextStereoFrameMinID =
            RTrunc(RAdd(RInt(FrameId(refFrame)), SkipInc(epl, kf, mapped)))]
    ELSE target

\* an EKF step that always takes the weighted variance, also when it is the larger one
KalmanWeighted_NoMin(target, result_idepth, id_var, w) ==
    [target EXCEPT !.idepth = UNZERO(RAdd(RMul(RSub(One, w), result_idepth), RMul(w, target.idepth))),
                   !.idepth_var = RMul(id_var, w)]
\* the blend and the variance of the EKF step, given the inflated variance and the weight
KalmanWeighted(target, result_idepth, id_var, w) ==
    [target EXCEPT !.idepth = UNZERO(RAdd(RMul(RSub(One, w), result_idepth), RMul(w, target.idepth))),
                   !.idepth_var = IF RLt(RMul(id_var, w), @) THEN RMul(id_var, w) ELSE @]
\* "w = result_var / (result_var + id_var)"
KalmanPredicted(target, result_idepth, result_var, id_var) ==
    KalmanWeighted(target, result_idepth, id_var, RDiv(result_var, RAdd(result_var, id_var)))
\* the textbook EKF step of observeDepthUpdate on (idepth, idepth_var):
\* "id_var = target->idepth_var*SUCC_VAR_INC_FAC"
KalmanUpdate(target, result_idepth, result_var) ==
    KalmanPredicted(target, result_idepth, result_var, RMul(target.idepth_var, SUCC_VAR_INC_FAC))

\* the inflation without the test against MAX_VAR
InvalidateAboveMaxVar_Never(target, blacklist) == target
\* "if(target->idepth_var > MAX_VAR)" after the inflation
InvalidateAboveMaxVar(target, blacklist) ==
    IF RGt(target.idepth_var, MAX_VAR)
    THEN [target EXCEPT !.isValid = FALSE, !.blacklisted = IF blacklist THEN @ - 1 ELSE @]
    ELSE target
\* a failed observation that lowers the blacklist counter whether or not the cell is
\* invalidated
FailVarInc_AlwaysBlacklists(target, blacklist) ==
    [InvalidateAboveMaxVar([target EXCEPT !.idepth_var = RMul(@, FAIL_VAR_INC_FAC)], FALSE)
        EXCEPT !.blacklisted = IF blacklist THEN @ - 1 ELSE @]
\* the variance inflation of a failed observation and the invalidation above MAX_VAR
FailVarInc(target, blacklist) ==
    InvalidateAboveMaxVar([target EXCEPT !.idepth_var = RMul(@, FAIL_VAR_INC_FAC)], blacklist)
\* "validity_counter -= VALIDITY_COUNTER_DEC; if(< 0) = 0; nextStereoFrameMinID = 0"
ValidityDec(target) ==
    [target EXCEPT !.validity_counter =
                      IF @ - VALIDITY_COUNTER_DEC < 0 THEN 0 ELSE @ - VALIDITY_COUNTER_DEC,
                   !.nextStereoFrameMinID = 0]

\* "nextStereoFrameMinID - referenceFrameByID_offset >= referenceFrameByID.size()"
UpdateSkips(target, ctx) ==
    ~ctx.reactivated /\ target.nextStereoFrameMinID - ctx.offset >= Len(ctx.byID)
\* a choice that always takes the oldest frame of the window
UpdateRefFrame_Oldest(target, ctx) ==
    IF ctx.reactivated THEN ctx.newest ELSE ctx.oldest
\* the reference frame observeDepthUpdate picks
UpdateRefFrame(target, ctx) ==
    IF ctx.reactivated THEN ctx.newest
    ELSE IF target.nextStereoFrameMinID - ctx.offset < 0 THEN ctx.oldest
    ELSE ctx.byID[target.nextStereoFrameMinID - ctx.offset + 1]
\* "DIFF_FAC_OBSERVE*diff*diff > result_var + target->idepth_var_smoothed"
Inconsistent(target, st) ==
    RGt(RMul(DIFF_FAC_OBSERVE, RSq(RSub(st.idepth, target.idepth_smoothed))),
        RAdd(st.var, target.idepth_var_smoothed))
\* an update that treats a -3 like a -2 and resets the skip on a -1
observeDepthUpdateFrom_FailuresCount(target, idx, ctx, refFrame, st) ==
    IF SkippedNotGoodTracked(refFrame, ctx.kf, idx)
    THEN [hyp |-> target, tag |-> "notGoodTracked"]
    ELSE IF st.error = RInt(-5) THEN [hyp |-> target, tag |-> "eplRejected"]
    ELSE IF st.error = RInt(-1)
         THEN [hyp |-> [target EXCEPT !.nextStereoFrameMinID = 0], tag |-> "oob"]
    ELSE IF st.error = RInt(-2)
         THEN [hyp |-> FailVarInc(ValidityDec(target), TRUE), tag |-> "notGood"]
    ELSE IF st.error = RInt(-3)
         THEN [hyp |-> FailVarInc(ValidityDec(target), TRUE), tag |-> "notFound"]
    ELSE IF st.error = RInt(-4) THEN [hyp |-> target, tag |-> "arithmetic"]
    ELSE IF Inconsistent(target, st)
         THEN [hyp |-> FailVarInc(target, FALSE), tag |-> "inconsistent"]
    ELSE [hyp |-> SkipSet(ValidityInc(KalmanUpdate(target, st.idepth, st.var), ctx.grad[idx]),
                          st.epl, refFrame, ctx.kf, ctx.mapped),
          tag |-> "updated"]
\* observeDepthUpdate after the skip test, with its reference frame and stereo result
observeDepthUpdateFrom(target, idx, ctx, refFrame, st) ==
    IF SkippedNotGoodTracked(refFrame, ctx.kf, idx)
    THEN [hyp |-> target, tag |-> "notGoodTracked"]
    ELSE IF st.error = RInt(-5) THEN [hyp |-> target, tag |-> "eplRejected"]
    ELSE IF st.error = RInt(-1) THEN [hyp |-> target, tag |-> "oob"]
    ELSE IF st.error = RInt(-2)
         THEN [hyp |-> FailVarInc(ValidityDec(target), TRUE), tag |-> "notGood"]
    ELSE IF st.error = RInt(-3) THEN [hyp |-> target, tag |-> "notFound"]
    ELSE IF st.error = RInt(-4) THEN [hyp |-> target, tag |-> "arithmetic"]
    ELSE IF Inconsistent(target, st)
         THEN [hyp |-> FailVarInc(target, FALSE), tag |-> "inconsistent"]
    ELSE [hyp |-> SkipSet(ValidityInc(KalmanUpdate(target, st.idepth, st.var), ctx.grad[idx]),
                          st.epl, refFrame, ctx.kf, ctx.mapped),
          tag |-> "updated"]
\* observeDepthUpdate: the new cell and what happened
observeDepthUpdate(target, idx, ctx) ==
    IF UpdateSkips(target, ctx) THEN [hyp |-> target, tag |-> "skip"]
    ELSE observeDepthUpdateFrom(target, idx, ctx, UpdateRefFrame(target, ctx), ctx.stereo[idx])

\* observeDepthRow without the MIN_ABS_GRAD_CREATE half of its second test
ObserveCell_NoCreateGate(target, idx, ctx) ==
    IF target.isValid /\ ctx.grad[idx] < MIN_ABS_GRAD_DECREASE
    THEN [hyp |-> [target EXCEPT !.isValid = FALSE], tag |-> "gradLost"]
    ELSE IF target.blacklisted < MIN_BLACKLIST
         THEN [hyp |-> target, tag |-> "passed"]
    ELSE IF ~target.isValid THEN observeDepthCreate(target, idx, ctx)
    ELSE observeDepthUpdate(target, idx, ctx)

\* one cell of observeDepthRow
ObserveCell(target, idx, ctx) ==
    IF target.isValid /\ ctx.grad[idx] < MIN_ABS_GRAD_DECREASE
    THEN [hyp |-> [target EXCEPT !.isValid = FALSE], tag |-> "gradLost"]
    ELSE IF ctx.grad[idx] < MIN_ABS_GRAD_CREATE \/ target.blacklisted < MIN_BLACKLIST
         THEN [hyp |-> target, tag |-> "passed"]
    ELSE IF ~target.isValid THEN observeDepthCreate(target, idx, ctx)
    ELSE observeDepthUpdate(target, idx, ctx)

\* observeDepth: every visited cell, each from its own prior state
observeDepthRow(cur, ctx) ==
    Stored([idx \in Cells |->
        IF idx \in ObserveCells THEN ObserveCell(cur[idx], idx, ctx)
        ELSE [hyp |-> cur[idx], tag |-> "unvisited"]])

(***************************** propagation *********************************)
\* the intrinsics K handed to the constructor and their inverse
fx  == RInt(1)
fy  == RInt(1)
cx  == RInt(3)
cy  == RInt(3)
fxi == RInv(fx)
fyi == RInv(fy)
cxi == RNeg(RDiv(cx, fx))
cyi == RNeg(RDiv(cy, fy))

\* se3FromSim3(new_keyframe->pose->thisToParent_raw).inverse(): rotation rows and translation.
\* The test frames move without rotating: even frames stand still, odd frames move
\* forward along the optical axis.
OldToNew_R(f) == << <<One, Zero, Zero>>, <<Zero, One, Zero>>, <<Zero, Zero, One>> >>
OldToNew_t(f) == IF f % 2 = 0 THEN <<Zero, Zero, Zero>> ELSE <<Zero, Zero, RInt(-1)>>

Dot3(a, b) == RAdd(RAdd(RMul(a[1], b[1]), RMul(a[2], b[2])), RMul(a[3], b[3]))
MatVec(M, v) == << Dot3(M[1], v), Dot3(M[2], v), Dot3(M[3], v) >>
Vec3Add(a, b) == << RAdd(a[1], b[1]), RAdd(a[2], b[2]), RAdd(a[3], b[3]) >>
Vec3Div(a, k) == << RDiv(a[1], k), RDiv(a[2], k), RDiv(a[3], k) >>

\* the four weighted samples of getInterpolatedElement at base index bp, fractions dx, dy
InterpolatedAt(mat, bp, dx, dy, dxdy) ==
    RAdd(RAdd(RMul(dxdy, RInt(mat[bp + 1 + W])),
              RMul(RSub(dy, dxdy), RInt(mat[bp + W]))),
         RAdd(RMul(RSub(dx, dxdy), RInt(mat[bp + 1])),
              RMul(RAdd(RSub(RSub(One, dx), dy), dxdy), RInt(mat[bp]))))
InterpolatedFrac(mat, bp, dx, dy) == InterpolatedAt(mat, bp, dx, dy, RMul(dx, dy))
\* getInterpolatedElement(mat, (x, y), width): bilinear interpolation
getInterpolatedElement(mat, x, y) ==
    InterpolatedFrac(mat, RTrunc(x) + RTrunc(y) * W,
                     RSub(x, RInt(RTrunc(x))), RSub(y, RInt(RTrunc(y))))

\* "pn = (trafoInv_R * Vector3f(x*fxi + cxi, y*fyi + cyi, 1.0f)) / source->idepth_smoothed
\*       + trafoInv_t"
WarpPoint(source, x, y, newKF) ==
    Vec3Add(Vec3Div(MatVec(OldToNew_R(newKF),
                           << RAdd(RMul(RInt(x), fxi), cxi), RAdd(RMul(RInt(y), fyi), cyi), One >>),
                    source.idepth_smoothed),
            OldToNew_t(newKF))
\* new_idepth, u_new, v_new of the warped point pn
WarpOf(pn) ==
    [pn |-> pn, new_idepth |-> RInv(pn[3]),
     u_new |-> RAdd(RMul(RMul(pn[1], RInv(pn[3])), fx), cx),
     v_new |-> RAdd(RMul(RMul(pn[2], RInv(pn[3])), fy), cy)]
\* the warp of one source cell
Warp(source, x, y, newKF) == WarpOf(WarpPoint(source, x, y, newKF))

\* "u_new > 2.1f && v_new > 2.1f && u_new < width-3.1f && v_new < height-3.1f"
StillInImage(u_new, v_new) ==
    /\ RGt(u_new, R(21, 10)) /\ RGt(v_new, R(21, 10))
    /\ RLt(u_new, R(10 * W - 31, 10)) /\ RLt(v_new, R(10 * H - 31, 10))

\* "residual*residual / (MAX_DIFF_CONSTANT + MAX_DIFF_GRAD_MULT*destAbsGrad*destAbsGrad) > 1"
\* (the divisor is finite and positive, so the quotient exceeds 1 exactly when the
\*  dividend exceeds the divisor; the comparison is made without forming the quotient)
ResidualTooBig(residual, destAbsGrad) ==
    RGt(RSq(residual),
        RAdd(MAX_DIFF_CONSTANT, RMul(MAX_DIFF_GRAD_MULT, RInt(destAbsGrad * destAbsGrad))))
\* the tracking / colour gate: TRUE when the source is dropped
PropGateDrops(x, y, u_new, v_new, newIDX, kf, newKF) ==
    IF TrackingParent(newKF) = kf /\ HasGoodMask(newKF)
    THEN ~WasGood(newKF, MaskIndex(x, y)) \/ MaxGradients(newKF)[newIDX] < MIN_ABS_GRAD_DECREASE
    ELSE ResidualTooBig(RSub(getInterpolatedElement(Image(newKF), u_new, v_new),
                             RInt(Image(kf)[Idx(x, y)])),
                        MaxGradients(newKF)[newIDX])
         \/ MaxGradients(newKF)[newIDX] < MIN_ABS_GRAD_DECREASE

\* the variance of the warped hypothesis: (new_idepth / idepth_smoothed)^4 * idepth_var
PropNewVar(source, new_idepth) ==
    RMul(RSq(RSq(RDiv(new_idepth, source.idepth_smoothed))), source.idepth_var)

\* the occlusion test of propagateDepth between the destination and the warped hypothesis
PropOccludes(targetBest, new_idepth, new_var) ==
    RGt(RMul(DIFF_FAC_PROP_MERGE, RSq(RSub(targetBest.idepth, new_idepth))),
        RAdd(new_var, targetBest.idepth_var))

\* merged_validity: the sum of the two counters, saturated
MergedValidity(sumv) ==
    IF sumv > VALIDITY_COUNTER_MAX + VALIDITY_COUNTER_MAX_VARIABLE
    THEN VALIDITY_COUNTER_MAX + VALIDITY_COUNTER_MAX_VARIABLE ELSE sumv
\* merged_new_idepth = w*targetBest->idepth + (1-w)*new_idepth
MergedIdepth(w, old_idepth, new_idepth) ==
    RAdd(RMul(w, old_idepth), RMul(RSub(One, w), new_idepth))
\* a merge that first inflates the variance of the destination, as the observation
\* update does with its prior
PropMerge_InflatedPrior(targetBest, source, new_idepth, new_var) ==
    Hyp3(MergedIdepth(RDiv(new_var, RAdd(RMul(targetBest.idepth_var, SUCC_VAR_INC_FAC), new_var)),
                      targetBest.idepth, new_idepth),
         RInv(RAdd(RInv(RMul(targetBest.idepth_var, SUCC_VAR_INC_FAC)), RInv(new_var))),
         MergedValidity(source.validity_counter + targetBest.validity_counter))
\* the EKF-style merge of a warped hypothesis into a valid destination
PropMerge(targetBest, source, new_idepth, new_var) ==
    Hyp3(MergedIdepth(RDiv(new_var, RAdd(targetBest.idepth_var, new_var)),
                      targetBest.idepth, new_idepth),
         RInv(RAdd(RInv(targetBest.idepth_var), RInv(new_var))),
         MergedValidity(source.validity_counter + targetBest.validity_counter))

\* an arrival that, on occlusion, always keeps what the destination holds
PropInstall_FirstWins(targetBest, source, new_idepth, new_var) ==
    IF targetBest.isValid /\ PropOccludes(targetBest, new_idepth, new_var)
    THEN targetBest
    ELSE IF ~targetBest.isValid
         THEN Hyp3(new_idepth, new_var, source.validity_counter)
    ELSE PropMerge(targetBest, source, new_idepth, new_var)

\* what the destination cell becomes when a warped hypothesis arrives
PropInstall(targetBest, source, new_idepth, new_var) ==
    IF targetBest.isValid /\ PropOccludes(targetBest, new_idepth, new_var)
    THEN (IF RLt(new_idepth, targetBest.idepth) THEN targetBest
          ELSE Hyp3(new_idepth, new_var, source.validity_counter))
    ELSE IF ~targetBest.isValid
         THEN Hyp3(new_idepth, new_var, source.validity_counter)
    ELSE PropMerge(targetBest, source, new_idepth, new_var)

\* "newIDX = (int)(u_new+0.5f) + ((int)(v_new+0.5f))*width"
NewIDX(u_new, v_new) == RTrunc(RAdd(u_new, R(1, 2))) + RTrunc(RAdd(v_new, R(1, 2))) * W

\* the warped source wp of cell idx arrives in otherDepthMap
PropArrive(other, source, wp, idx, kf, newKF) ==
    IF ~StillInImage(wp.u_new, wp.v_new) THEN other
    ELSE IF PropGateDrops(XOf(idx), YOf(idx), wp.u_new, wp.v_new,
                          NewIDX(wp.u_new, wp.v_new), kf, newKF) THEN other
    ELSE Stored([other EXCEPT ![NewIDX(wp.u_new, wp.v_new)] =
            PropInstall(@, source, wp.new_idepth, PropNewVar(source, wp.new_idepth))])

\* one iteration of the source loop of propagateDepth
PropStep(other, cur, idx, kf, newKF) ==
    IF ~cur[idx].isValid THEN other
    ELSE PropArrive(other, cur[idx], Warp(cur[idx], XOf(idx), YOf(idx), newKF), idx, kf, newKF)

\* the first valid source at or after idx in index order, W*H if there is none
NextSource(cur, idx) ==
    IF \E j \in Cells : j >= idx /\ cur[j].isValid
    THEN CHOOSE j \in Cells : j >= idx /\ cur[j].isValid
                              /\ \A k \in Cells : (k >= idx /\ cur[k].isValid) => j <= k
    ELSE W * H
RECURSIVE PropLoop(_, _, _, _, _)
\* the source loop, y outer and x inner: the sources in index order; an invalid
\* source leaves otherDepthMap alone, so the loop steps from valid source to valid source
PropLoop(other, cur, idx, kf, newKF) ==
    IF idx >= W * H THEN other
    ELSE PropLoop(PropStep(other, cur, idx, kf, newKF), cur, NextSource(cur, idx + 1), kf, newKF)

\* propagateDepth: wipe otherDepthMap, warp every source in index order; the map
\* that is currentDepthMap after the swap
propagateDepth(cur, other, kf, newKF) ==
    PropLoop(Stored([idx \in Cells |-> [other[idx] EXCEPT !.isValid = FALSE, !.blacklisted = 0]]),
             cur, NextSource(cur, 0), kf, newKF)

(************************* frame data for seeding **************************)
\* rand() % 100001 / 100000.0f in initializeRandomly: idepth = 0.5 + that, one of
\* 1/2, 1, 3/2 per cell, the pattern shifted by the seed
RandSeeds == {2}
RandFrames == {1}
RandomIdepth(seed, idx) == R(1 + ((idx + seed) % 3), 2)

\* Frame::idepth(): the ground-truth inverse depth of the frames that carry one
GTFrames == {1, 2}
GTIdepth(f) ==
    [idx \in Cells |->
        LET xy == <<XOf(idx), YOf(idx)>>
        IN  IF f = 2                       \* a far wall, two cells almost at infinity,
                                           \* and a near edge of three cells above it
            THEN (IF xy \in {<<4, 4>>, <<4, 6>>} THEN R(1, 128)
                  ELSE IF xy \in {<<2, 2>>, <<3, 2>>, <<4, 2>>} THEN RInt(2)
                  ELSE Zero)
            ELSE IF xy = <<0, 0>> THEN R(1, 2)
            ELSE IF xy \in {<<2, 3>>, <<3, 3>>} THEN RInt(2)
            ELSE IF xy = <<3, 2>> THEN NaN
            ELSE IF xy = <<2, 2>> THEN RInt(25)
            ELSE IF xy = <<4, 3>> THEN R(1, 128)
            ELSE IF xy = <<4, 4>> THEN RInt(-1)
            ELSE Zero]

\* Frame::idepth_reAct(), idepthVar_reAct(), validity_reAct() of the frames that were
\* finalized before: idepthVar -1 is "invalid", -2 "blacklisted"
ReActFrames == {1, 2, 3}
ReActData(f) ==
    [idx \in Cells |->
        LET xy == <<XOf(idx), YOf(idx)>>
        IN  IF f = 1
            THEN (IF xy = <<3, 3>>
                  THEN [idepth |-> R(1, 3), idepthVar |-> R(1, 2), validity |-> 40]
                  ELSE IF xy = <<0, 0>>
                  THEN [idepth |-> R(1, 128), idepthVar |-> R(1, 16), validity |-> 40]
                  ELSE [idepth |-> Zero, idepthVar |-> RInt(-1), validity |-> 0])
            ELSE IF f = 3
            THEN (IF xy \in {<<2, 2>>, <<3, 2>>, <<3, 3>>, <<3, 4>>, <<4, 4>>}
                  THEN [idepth |-> R(xy[1] + xy[2] - 2, 2),      \* a staircase, weakly seen
                        idepthVar |-> R(1, 4), validity |-> 10]
                  ELSE [idepth |-> Zero, idepthVar |-> RInt(-1), validity |-> 0])
            ELSE IF xy \in {<<1, 2>>, <<1, 3>>, <<3, 3>>}
            THEN [idepth |-> R(1, 2), idepthVar |-> R(1, 16), validity |-> 40]
            ELSE IF xy \in {<<3, 4>>, <<W - 3, H - 3>>}
            THEN [idepth |-> Zero, idepthVar |-> RInt(-2), validity |-> 0]
            ELSE [idepth |-> Zero, idepthVar |-> RInt(-1), validity |-> 0]]

(****************************** the state **********************************)
VARIABLES
    currentDepthMap,            \* DepthMapPixelHypothesis[width*height]
    otherDepthMap,              \* the second buffer
    validityIntegralBuffer,     \* int[width*height]
    activeKeyFrame,             \* frame id, 0: none
    activeKeyFrameIsReactivated,
    activeKeyFramelock,         \* the frame whose active lock is held, 0: none
    activeMutex,                \* Frame::activeMutex per frame: shared locks this map holds on it
    referenceFrameByID,         \* the window of reference frames, by id - offset
    referenceFrameByID_offset,
    depthHasBeenUpdatedFlag,    \* Frame::depthHasBeenUpdatedFlag per frame
    keyFrameDepth,              \* what the last setDepth(currentDepthMap) handed over
    numMappedOnThis,            \* Frame::numMappedOnThis per frame
    rescaleFactor,              \* the scale createKeyFrame last put into thisToParent_raw
    observed,                   \* per cell, the hypothesis the last observeDepth left and what it did
    calls,                      \* the phases the last public method ran, in order
    lastOp,                     \* the last public method
    nOps,                       \* public methods run so far
    fusion,                     \* two estimates fused into one cell in both orders
    reduce,                     \* the parallel phase (threadReducer.reduce) in progress
    stereo,                     \* one call of doLineStereo: what it was given and what it returned
    window,                     \* one call of observeDepthUpdate on a window of reference frames
    warp,                       \* one source hypothesis taken through the loop body of propagateDepth
    epl                         \* one epipolar search segment of doLineStereo and the positions it samples

vars == << currentDepthMap, otherDepthMap, validityIntegralBuffer, activeKeyFrame,
           activeKeyFrameIsReactivated, activeKeyFramelock, activeMutex, referenceFrameByID,
           referenceFrameByID_offset, depthHasBeenUpdatedFlag, keyFrameDepth,
           numMappedOnThis, rescaleFactor, observed, calls,
           lastOp, nOps, fusion, reduce, stereo, window, warp, epl >>

\* how many public methods one behaviour runs
MaxOps == 3

NoFusion == [law |-> "none"]
NoReduce == [job |-> "none"]
NoStereo == [call |-> "none"]
NoWindow == [call |-> "none"]
NoWarp == [call |-> "none"]
NoEpl == [call |-> "none"]
NoObservation == [idx \in Cells |-> [hyp |-> HypInvalid, tag |-> "none"]]

\* DepthMap::DepthMap and reset(): both buffers invalid, no keyframe
ConstructedState ==
    /\ currentDepthMap = [idx \in Cells |-> HypInvalid]
    /\ otherDepthMap = [idx \in Cells |-> HypInvalid]
    /\ validityIntegralBuffer = [idx \in Cells |-> 0]
    /\ activeKeyFrame = 0
    /\ activeKeyFrameIsReactivated = FALSE
    /\ activeKeyFramelock = 0
    /\ activeMutex = [f \in FrameIds |-> 0]
    /\ referenceFrameByID = << >>
    /\ referenceFrameByID_offset = 0
    /\ depthHasBeenUpdatedFlag = [f \in FrameIds |-> FALSE]
    /\ keyFrameDepth = [idx \in Cells |-> HypInvalid]
    /\ numMappedOnThis = [f \in FrameIds |-> 0]
    /\ rescaleFactor = One
    /\ observed = NoObservation
    /\ calls = << >>
    /\ lastOp = "construct"
    /\ nOps = 0
    /\ fusion = NoFusion
    /\ reduce = NoReduce
    /\ stereo = NoStereo
    /\ window = NoWindow
    /\ warp = NoWarp
    /\ epl = NoEpl

Init == ConstructedState

\* DepthMap::isValid()
IsValidMap == activeKeyFrame # 0

\* the object has not been destroyed
Alive == lastOp # "~DepthMap"

(**************************** the keyframe lock *****************************)
\* Frame::getActiveLock() builds a boost::shared_lock on the frame's activeMutex: one
\* more shared holder
LockShared(mutex, f) == [mutex EXCEPT ![f] = @ + 1]
\* what a shared_lock gives back when it is destroyed or assigned over: its share, if
\* it owns one
ReleaseOwned(mutex, lock) == IF lock = 0 THEN mutex ELSE [mutex EXCEPT ![lock] = @ - 1]
\* activeKeyFramelock = f->getActiveLock(): the new share is taken first, the move
\* assignment then gives back the share the member held
getActiveLock(mutex, lock, f) == ReleaseOwned(LockShared(mutex, f), lock)
\* activeKeyFramelock.unlock(): boost throws lock_error when the lock owns no share
Unlock ==
    IF activeKeyFramelock = 0
    THEN /\ calls' = << "lock_error" >>
         /\ UNCHANGED << activeKeyFramelock, activeMutex >>
    ELSE /\ calls' = << "unlock" >>
         /\ activeKeyFramelock' = 0
         /\ activeMutex' = ReleaseOwned(activeMutex, activeKeyFramelock)

(************************** seeding the map ********************************)
\* the loop of initializeRandomly: y in [1, height-1), x in [1, width-1)
RandomInitCells == { idx \in Cells : XOf(idx) >= 1 /\ XOf(idx) < W - 1 /\ YOf(idx) >= 1 /\ YOf(idx) < H - 1 }
RandomInitMap(cur, f, seed) ==
    Stored([idx \in Cells |->
        IF idx \notin RandomInitCells THEN cur[idx]
        ELSE IF MaxGradients(f)[idx] > MIN_ABS_GRAD_CREATE
             THEN Hyp5(RandomIdepth(seed, idx), RandomIdepth(seed, idx),
                       VAR_RANDOM_INIT_INITIAL, VAR_RANDOM_INIT_INITIAL, 20)
        ELSE [cur[idx] EXCEPT !.isValid = FALSE, !.blacklisted = 0]])

\* initializeFromGTDepth without its "idepthValue > 0" test: a seeding that would take
\* every ground-truth value that is a number
GTInitMap_NoSignTest(cur, f) ==
    Stored([idx \in Cells |->
        IF ~IsNaN(GTIdepth(f)[idx])
        THEN Hyp5(GTIdepth(f)[idx], GTIdepth(f)[idx], VAR_GT_INIT_INITIAL, VAR_GT_INIT_INITIAL, 20)
        ELSE [cur[idx] EXCEPT !.isValid = FALSE, !.blacklisted = 0]])
\* the second loop of initializeFromGTDepth: every cell
GTInitMap(cur, f) ==
    Stored([idx \in Cells |->
        LET idepthValue == GTIdepth(f)[idx]
        IN  IF ~IsNaN(idepthValue) /\ RGt(idepthValue, Zero)
            THEN Hyp5(idepthValue, idepthValue, VAR_GT_INIT_INITIAL, VAR_GT_INIT_INITIAL, 20)
            ELSE [cur[idx] EXCEPT !.isValid = FALSE, !.blacklisted = 0]])

\* the load loop of setFromExistingKF: every cell
ReActLoadMap(cur, f) ==
    Stored([idx \in Cells |->
        LET d == ReActData(f)[idx]
        IN  IF RGt(d.idepthVar, Zero)
            THEN Hyp3(d.idepth, d.idepthVar, d.validity)
            ELSE [cur[idx] EXCEPT !.isValid = FALSE,
                     !.blacklisted = IF d.idepthVar = RInt(-2) THEN MIN_BLACKLIST - 1 ELSE 0]])

(****************************** rescale ************************************)
ValidCells(map) == { idx \in Cells : map[idx].isValid }
\* numIdepth / sumIdepth over the valid cells of the map
RescaleFactorOf(map) ==
    RDiv(RInt(Cardinality(ValidCells(map))),
         RSumOver([idx \in Cells |-> map[idx].idepth_smoothed], ValidCells(map)))
\* "make mean inverse depth be one": the second loop of createKeyFrame
RescaleMap(map, factor) ==
    Stored([idx \in Cells |->
        IF ~map[idx].isValid THEN map[idx]
        ELSE [map[idx] EXCEPT !.idepth = RMul(@, factor),
                              !.idepth_smoothed = RMul(@, factor),
                              !.idepth_var = RMul(@, RSq(factor)),
                              !.idepth_var_smoothed = RMul(@, RSq(factor))]])

(***************************** public methods ******************************)
\* Frame::setDepth(currentDepthMap): the keyframe takes the map and raises its flag
SetDepth(f, map) ==
    /\ keyFrameDepth' = map
    /\ depthHasBeenUpdatedFlag' = [depthHasBeenUpdatedFlag EXCEPT ![f] = TRUE]

InitializeRandomly(f, seed) ==
    /\ Alive
    /\ nOps < MaxOps
    /\ UNCHANGED << fusion, reduce, stereo, window, warp, epl >>
    /\ activeKeyFramelock' = f
    /\ activeMutex' = getActiveLock(activeMutex, activeKeyFramelock, f)
    /\ activeKeyFrame' = f
    /\ activeKeyFrameIsReactivated' = FALSE
    /\ currentDepthMap' = RandomInitMap(currentDepthMap, f, seed)
    /\ SetDepth(f, currentDepthMap')
    /\ calls' = << "setDepth" >>
    /\ lastOp' = "initializeRandomly"
    /\ nOps' = nOps + 1
    /\ observed' = NoObservation
    /\ UNCHANGED << otherDepthMap, validityIntegralBuffer, referenceFrameByID,
                    referenceFrameByID_offset, numMappedOnThis, rescaleFactor >>

InitializeFromGTDepth(f) ==
    /\ Alive
    /\ nOps < MaxOps
    /\ UNCHANGED << fusion, reduce, stereo, window, warp, epl >>
    /\ HasIDepthBeenSet(f)
    /\ activeKeyFramelock' = f
    /\ activeMutex' = getActiveLock(activeMutex, activeKeyFramelock, f)
    /\ activeKeyFrame' = f
    /\ activeKeyFrameIsReactivated' = FALSE
    /\ currentDepthMap' = GTInitMap(currentDepthMap, f)
    /\ SetDepth(f, currentDepthMap')
    /\ calls' = << "setDepth" >>
    /\ lastOp' = "initializeFromGTDepth"
    /\ nOps' = nOps + 1
    /\ observed' = NoObservation
    /\ UNCHANGED << otherDepthMap, validityIntegralBuffer, referenceFrameByID,
                    referenceFrameByID_offset, numMappedOnThis, rescaleFactor >>

SetFromExistingKF(f) ==
    /\ Alive
    /\ nOps < MaxOps
    /\ UNCHANGED << fusion, reduce, stereo, window, warp, epl >>
    /\ HasIDepthBeenSet(f)
    /\ activeKeyFramelock' = f
    /\ activeMutex' = getActiveLock(activeMutex, activeKeyFramelock, f)
    /\ activeKeyFrame' = f
    /\ numMappedOnThis' = [numMappedOnThis EXCEPT ![f] = 0]
    /\ activeKeyFrameIsReactivated' = TRUE
    /\ otherDepthMap' = ReActLoadMap(currentDepthMap, f)
    /\ currentDepthMap' = regularizeDepthMap(otherDepthMap', FALSE, VAL_SUM_MIN_FOR_KEEP)
    /\ calls' = << "regularizeDepthMap(false)" >>
    /\ lastOp' = "setFromExistingKF"
    /\ nOps' = nOps + 1
    /\ observed' = NoObservation
    /\ UNCHANGED << validityIntegralBuffer, referenceFrameByID, referenceFrameByID_offset,
                    depthHasBeenUpdatedFlag, keyFrameDepth, rescaleFactor >>

RECURSIVE PushWhile(_, _, _)
\* "while(size + offset <= frame->id()) push_back(frame)"
PushWhile(byID, offset, f) ==
    IF Len(byID) + offset <= FrameId(f) THEN PushWhile(Append(byID, f), offset, f) ELSE byID
RECURSIVE BuildByID(_, _, _, _)
BuildByID(byID, offset, refs, i) ==
    IF i > Len(refs) THEN byID
    ELSE BuildByID(PushWhile(byID, offset, refs[i]), offset, refs, i + 1)

\* what one call of updateKeyframe is given: the window of reference frames, the raw
\* stereo result of the first observed cell (the cells take the results of
\* RawStereoResults in turn from there) and the setting allowNegativeIdepths
ObserveInputs ==
    << [refs |-> <<2>>,    raw |-> 1, allowNeg |-> TRUE],
       [refs |-> <<3>>,    raw |-> 1, allowNeg |-> TRUE],
       [refs |-> <<2, 3>>, raw |-> 1, allowNeg |-> TRUE],
       [refs |-> <<3>>,    raw |-> 2, allowNeg |-> TRUE],
       [refs |-> <<3>>,    raw |-> 3, allowNeg |-> TRUE],
       [refs |-> <<3>>,    raw |-> 4, allowNeg |-> TRUE],
       [refs |-> <<3>>,    raw |-> 5, allowNeg |-> TRUE],
       [refs |-> <<3>>,    raw |-> 6, allowNeg |-> TRUE],
       [refs |-> <<3>>,    raw |-> 7, allowNeg |-> TRUE],
       [refs |-> <<3>>,    raw |-> 8, allowNeg |-> TRUE],
       [refs |-> <<3>>,    raw |-> 9, allowNeg |-> TRUE],
       [refs |-> <<3>>,    raw |-> 9, allowNeg |-> FALSE],
       [refs |-> <<3>>,    raw |-> 10, allowNeg |-> TRUE] >>
NumInputs == Len(ObserveInputs)

StereoAt(o, allowNeg) ==
    Stored([idx \in Cells |->
        doLineStereoResult(
            RawStereoResults[((o - 1 + (XOf(idx) - 3) + (YOf(idx) - 3) + 2 * NumStereo) % NumStereo) + 1],
            allowNeg)])

\* what observeDepth reads besides the cell: the keyframe, the window of reference
\* frames and the stereo results
ObserveContext(refs, o, allowNegativeIdepths) ==
    [kf |-> activeKeyFrame, grad |-> MaxGradients(activeKeyFrame),
     reactivated |-> activeKeyFrameIsReactivated,
     oldest |-> refs[1], newest |-> refs[Len(refs)],
     byID |-> BuildByID(<< >>, FrameId(refs[1]), refs, 1), offset |-> FrameId(refs[1]),
     stereo |-> StereoAt(o, allowNegativeIdepths),
     mapped |-> numMappedOnThis[activeKeyFrame]]

\* the export without the test of the flag
UpdateExport_Always ==
    /\ SetDepth(activeKeyFrame, currentDepthMap')
    /\ calls' = << "observeDepth", "regularizeDepthMapFillHoles",
                   "regularizeDepthMap(false)", "setDepth" >>
\* "if(!activeKeyFrame->depthHasBeenUpdatedFlag) activeKeyFrame->setDepth(currentDepthMap)"
\* after observeDepth, regularizeDepthMapFillHoles and regularizeDepthMap(false, ...)
UpdateExport ==
    IF ~depthHasBeenUpdatedFlag[activeKeyFrame]
    THEN /\ SetDepth(activeKeyFrame, currentDepthMap')
         /\ calls' = << "observeDepth", "regularizeDepthMapFillHoles",
                        "regularizeDepthMap(false)", "setDepth" >>
    ELSE /\ UNCHANGED << keyFrameDepth, depthHasBeenUpdatedFlag >>
         /\ calls' = << "observeDepth", "regularizeDepthMapFillHoles",
                        "regularizeDepthMap(false)" >>

UpdateKeyframe(refs, o, allowNegativeIdepths) ==
    /\ Alive
    /\ nOps < MaxOps
    /\ UNCHANGED << fusion, reduce, stereo, window, warp, epl >>
    /\ IsValidMap
    /\ FrameId(refs[1]) > FrameId(activeKeyFrame)
    /\ referenceFrameByID' = BuildByID(<< >>, FrameId(refs[1]), refs, 1)
    /\ referenceFrameByID_offset' = FrameId(refs[1])
    /\ \E obs \in { observeDepthRow(currentDepthMap, ObserveContext(refs, o, allowNegativeIdepths)) } :
          /\ observed' = obs
          /\ \E map \in { Stored([idx \in Cells |-> obs[idx].hyp]) } :
                /\ validityIntegralBuffer' = buildRegIntegralBuffer(map)
                /\ otherDepthMap' =
                      regularizeDepthMapFillHoles(map, MaxGradients(activeKeyFrame))
    /\ currentDepthMap' = regularizeDepthMap(otherDepthMap', FALSE, VAL_SUM_MIN_FOR_KEEP)
    /\ UpdateExport
    /\ numMappedOnThis' = [numMappedOnThis EXCEPT ![activeKeyFrame] = @ + 1]
    /\ lastOp' = "updateKeyframe"
    /\ nOps' = nOps + 1
    /\ UNCHANGED << activeKeyFrame, activeKeyFrameIsReactivated, activeKeyFramelock, activeMutex,
                    rescaleFactor >>

\* createKeyFrame with hole filling moved in front of the occlusion-removing smoothing
CreateKeyFrame_FillFirst(new_keyframe) ==
    /\ Alive
    /\ nOps < MaxOps
    /\ UNCHANGED << fusion, reduce, stereo, window, warp, epl >>
    /\ IsValidMap
    /\ TrackingParent(new_keyframe) # 0
    /\ FrameId(new_keyframe) > FrameId(activeKeyFrame)
    /\ \E prop \in { propagateDepth(currentDepthMap, otherDepthMap, activeKeyFrame, new_keyframe) } :
       \E filled \in { regularizeDepthMapFillHoles(prop, MaxGradients(new_keyframe)) } :
          /\ validityIntegralBuffer' = buildRegIntegralBuffer(prop)
          /\ otherDepthMap' = regularizeDepthMap(filled, TRUE, VAL_SUM_MIN_FOR_KEEP)
    /\ \E reg2 \in { regularizeDepthMap(otherDepthMap', FALSE, VAL_SUM_MIN_FOR_KEEP) } :
          /\ rescaleFactor' = RescaleFactorOf(reg2)
          /\ currentDepthMap' = RescaleMap(reg2, rescaleFactor')
    /\ activeKeyFrame' = new_keyframe
    /\ activeKeyFramelock' = new_keyframe
    /\ activeMutex' = ReleaseOwned(getActiveLock(LockShared(activeMutex, new_keyframe),
                                                 activeKeyFramelock, new_keyframe),
                                   new_keyframe)
    /\ activeKeyFrameIsReactivated' = FALSE
    /\ SetDepth(new_keyframe, currentDepthMap')
    /\ calls' = << "propagateDepth", "regularizeDepthMap(true)", "regularizeDepthMapFillHoles",
                   "regularizeDepthMap(false)", "rescale", "setDepth" >>
    /\ lastOp' = "createKeyFrame"
    /\ nOps' = nOps + 1
    /\ observed' = NoObservation
    /\ UNCHANGED << referenceFrameByID, referenceFrameByID_offset, numMappedOnThis >>

CreateKeyFrame(new_keyframe) ==
    /\ Alive
    /\ nOps < MaxOps
    /\ UNCHANGED << fusion, reduce, stereo, window, warp, epl >>
    /\ IsValidMap
    /\ TrackingParent(new_keyframe) # 0
    /\ FrameId(new_keyframe) > FrameId(activeKeyFrame)
    /\ \E prop \in { propagateDepth(currentDepthMap, otherDepthMap, activeKeyFrame, new_keyframe) } :
       \E reg1 \in { regularizeDepthMap(prop, TRUE, VAL_SUM_MIN_FOR_KEEP) } :
          /\ validityIntegralBuffer' = buildRegIntegralBuffer(reg1)
          /\ otherDepthMap' = regularizeDepthMapFillHoles(reg1, MaxGradients(new_keyframe))
    /\ \E reg2 \in { regularizeDepthMap(otherDepthMap', FALSE, VAL_SUM_MIN_FOR_KEEP) } :
          /\ rescaleFactor' = RescaleFactorOf(reg2)
          /\ currentDepthMap' = RescaleMap(reg2, rescaleFactor')
    /\ activeKeyFrame' = new_keyframe
    /\ activeKeyFramelock' = new_keyframe
    /\ activeMutex' = ReleaseOwned(getActiveLock(LockShared(activeMutex, new_keyframe),
                                                 activeKeyFramelock, new_keyframe),
                                   new_keyframe)
    /\ activeKeyFrameIsReactivated' = FALSE
    /\ SetDepth(new_keyframe, currentDepthMap')
    /\ calls' = << "propagateDepth", "regularizeDepthMap(true)", "regularizeDepthMapFillHoles",
                   "regularizeDepthMap(false)", "rescale", "setDepth" >>
    /\ lastOp' = "createKeyFrame"
    /\ nOps' = nOps + 1
    /\ observed' = NoObservation
    /\ UNCHANGED << referenceFrameByID, referenceFrameByID_offset, numMappedOnThis >>

FinalizeKeyFrame ==
    /\ Alive
    /\ nOps < MaxOps
    /\ UNCHANGED << fusion, reduce, stereo, window, warp, epl >>
    /\ IsValidMap
    /\ validityIntegralBuffer' = buildRegIntegralBuffer(currentDepthMap)
    /\ otherDepthMap' = regularizeDepthMapFillHoles(currentDepthMap, MaxGradients(activeKeyFrame))
    /\ currentDepthMap' = regularizeDepthMap(otherDepthMap', FALSE, VAL_SUM_MIN_FOR_KEEP)
    /\ SetDepth(activeKeyFrame, currentDepthMap')
    /\ calls' = << "regularizeDepthMapFillHoles", "regularizeDepthMap(false)", "setDepth",
                   "calculateMeanInformation", "takeReActivationData" >>
    /\ lastOp' = "finalizeKeyFrame"
    /\ nOps' = nOps + 1
    /\ observed' = NoObservation
    /\ UNCHANGED << activeKeyFrame, activeKeyFrameIsReactivated, activeKeyFramelock, activeMutex,
                    referenceFrameByID, referenceFrameByID_offset, numMappedOnThis,
                    rescaleFactor >>

\* invalidate() without its early return: it unlocks whether or not a keyframe is set
Invalidate_NoEarlyReturn ==
    /\ Alive
    /\ activeKeyFrame' = 0
    /\ Unlock
    /\ lastOp' = "invalidate"
    /\ UNCHANGED << currentDepthMap, otherDepthMap, validityIntegralBuffer,
                    activeKeyFrameIsReactivated, referenceFrameByID,
                    referenceFrameByID_offset, depthHasBeenUpdatedFlag, keyFrameDepth,
                    numMappedOnThis, rescaleFactor, observed, nOps, fusion, reduce, stereo, window, warp, epl >>

Invalidate ==
    /\ Alive
    /\ IF activeKeyFrame = 0
       THEN /\ UNCHANGED << activeKeyFrame, activeKeyFramelock, activeMutex >>
            /\ calls' = << >>
       ELSE /\ activeKeyFrame' = 0
            /\ Unlock
    /\ lastOp' = "invalidate"
    /\ UNCHANGED << currentDepthMap, otherDepthMap, validityIntegralBuffer,
                    activeKeyFrameIsReactivated, referenceFrameByID,
                    referenceFrameByID_offset, depthHasBeenUpdatedFlag, keyFrameDepth,
                    numMappedOnThis, rescaleFactor, observed, nOps, fusion, reduce, stereo, window, warp, epl >>

\* ~DepthMap(): unlocks if a keyframe is set; the member activeKeyFramelock is then
\* destroyed and gives back the share it still owns, if any; the buffers are freed
Destroy ==
    /\ Alive
    /\ IF activeKeyFrame # 0
       THEN Unlock
       ELSE /\ calls' = IF activeKeyFramelock = 0 THEN << >> ELSE << "~shared_lock" >>
            /\ activeKeyFramelock' = 0
            /\ activeMutex' = ReleaseOwned(activeMutex, activeKeyFramelock)
    /\ lastOp' = "~DepthMap"
    /\ UNCHANGED << currentDepthMap, otherDepthMap, validityIntegralBuffer, activeKeyFrame,
                    activeKeyFrameIsReactivated, referenceFrameByID,
                    referenceFrameByID_offset, depthHasBeenUpdatedFlag, keyFrameDepth,
                    numMappedOnThis, rescaleFactor, observed, nOps, fusion, reduce, stereo, window, warp, epl >>

\* the tracker takes the keyframe's new depth and lowers depthHasBeenUpdatedFlag
TrackerTakesDepth ==
    /\ Alive
    /\ activeKeyFrame # 0
    /\ depthHasBeenUpdatedFlag[activeKeyFrame]
    /\ depthHasBeenUpdatedFlag' = [depthHasBeenUpdatedFlag EXCEPT ![activeKeyFrame] = FALSE]
    /\ UNCHANGED << currentDepthMap, otherDepthMap, validityIntegralBuffer, activeKeyFrame,
                    activeKeyFrameIsReactivated, activeKeyFramelock, activeMutex, referenceFrameByID,
                    referenceFrameByID_offset, keyFrameDepth, numMappedOnThis, rescaleFactor,
                    observed, calls, lastOp, nOps, fusion, reduce, stereo, window, warp, epl >>

Next ==
    \/ \E f \in RandFrames, seed \in RandSeeds : InitializeRandomly(f, seed)
    \/ \E f \in GTFrames : InitializeFromGTDepth(f)
    \/ \E f \in ReActFrames : SetFromExistingKF(f)
    \/ \E i \in 1 .. NumInputs :
          UpdateKeyframe(ObserveInputs[i].refs, ObserveInputs[i].raw, ObserveInputs[i].allowNeg)
    \/ \E f \in FrameIds : CreateKeyFrame(f)
    \/ FinalizeKeyFrame
    \/ Invalidate
    \/ Destroy
    \/ TrackerTakesDepth

Spec == Init /\ [][Next]_vars

(***************************************************************************)
(* The two fusion laws on their own: a cell takes two estimates in both     *)
(* orders.  The estimates are drawn from small sets.                        *)
(***************************************************************************)
FusionIdepths == { R(1, 2), One, R(3, 2), RInt(2) }
FusionVars    == { R(1, 16), R(1, 8), R(1, 4) }
FusionValidities == { 5, 20 }
FusionEstimates ==
    { Hyp3(id, var, val) : id \in FusionIdepths, var \in FusionVars, val \in FusionValidities }
\* the priors of the cell that takes two observation updates
FusionPriors == { Hyp3(One, R(1, 16), 10), Hyp3(R(3, 2), R(1, 4), 10) }

mainVars == << currentDepthMap, otherDepthMap, validityIntegralBuffer, activeKeyFrame,
               activeKeyFrameIsReactivated, activeKeyFramelock, activeMutex, referenceFrameByID,
               referenceFrameByID_offset, depthHasBeenUpdatedFlag, keyFrameDepth,
               numMappedOnThis, rescaleFactor, observed, calls, lastOp, nOps >>

\* two successful observation updates of one cell (the EKF step of observeDepthUpdate)
FuseObservations(prior, a, b) ==
    /\ fusion = NoFusion
    /\ fusion' = [law |-> "observeDepthUpdate", a |-> a, b |-> b,
                  ab |-> KalmanUpdate(KalmanUpdate(prior, a.idepth, a.idepth_var),
                                      b.idepth, b.idepth_var),
                  ba |-> KalmanUpdate(KalmanUpdate(prior, b.idepth, b.idepth_var),
                                      a.idepth, a.idepth_var)]
    /\ UNCHANGED << mainVars, reduce, stereo, window, warp, epl >>
\* two warped hypotheses arriving at one empty destination cell of propagateDepth
FusePropagated(a, b) ==
    /\ fusion = NoFusion
    /\ fusion' = [law |-> "propagateDepth", a |-> a, b |-> b,
                  ab |-> PropInstall(PropInstall(HypInvalid, a, a.idepth, a.idepth_var),
                                     b, b.idepth, b.idepth_var),
                  ba |-> PropInstall(PropInstall(HypInvalid, b, b.idepth, b.idepth_var),
                                     a, a.idepth, a.idepth_var)]
    /\ UNCHANGED << mainVars, reduce, stereo, window, warp, epl >>

FusionNext ==
    \/ \E prior \in FusionPriors, a \in FusionEstimates, b \in FusionEstimates :
          FuseObservations(prior, a, b)
    \/ \E a \in FusionEstimates, b \in FusionEstimates : FusePropagated(a, b)

SpecFusion == Init /\ [][FusionNext]_vars

(***************************************************************************)
(* The parallel phases on their own.  threadReducer.reduce(f, first, end,  *)
(* stepSize) cuts the rows [first, end) into chunks of stepSize rows and   *)
(* runs f(yMin, yMax) on the chunks concurrently; f walks its rows in      *)
(* order, x ascending.  One step is one cell of one chunk; the chunks      *)
(* interleave freely.  The phases start from a freshly seeded map.         *)
(***************************************************************************)
\* the chunk sizes tried (the code passes 10, which leaves one chunk on a small grid)
ReduceStrides == {1, 2, 10}
\* the first row and the cells of a phase
JobFirstRow(job) == IF job = "regularizeDepthMap" THEN 2 ELSE 3
JobCells(job) == IF job = "regularizeDepthMap" THEN RegCells ELSE ObserveCells
\* the chunk that row y falls into
ChunkOf(job, stride, y) == (y - JobFirstRow(job)) \div stride
ReduceChunks == 0 .. H
\* the cells chunk c has not visited yet, and the one it visits next
Pending(c) ==
    { idx \in JobCells(reduce.job) \ reduce.done :
         ChunkOf(reduce.job, reduce.stride, YOf(idx)) = c }
NextOf(S) == CHOOSE idx \in S : \A j \in S : idx <= j
\* the bookkeeping of one visited cell
Visited(idx) ==
    [reduce EXCEPT !.done = @ \cup {idx},
                   !.outOfOrder = @ \/ (\E j \in reduce.done : j > idx)]

\* the seeding calls that precede the phases
SeedMap ==
    /\ reduce = NoReduce
    /\ nOps = 0
    /\ \/ \E f \in RandFrames, seed \in RandSeeds : InitializeRandomly(f, seed)
       \/ \E f \in GTFrames : InitializeFromGTDepth(f)
       \/ \E f \in ReActFrames : SetFromExistingKF(f)

\* regularizeDepthMap up to the start of its workers: the memcpy of current into other
StartRegularize(removeOcclusions, stride) ==
    /\ reduce = NoReduce
    /\ IsValidMap
    /\ otherDepthMap' = currentDepthMap
    /\ reduce' = [job |-> "regularizeDepthMap", stride |-> stride,
                  removeOcclusions |-> removeOcclusions, input |-> 0,
                  start |-> currentDepthMap, done |-> {}, outOfOrder |-> FALSE]
    /\ UNCHANGED << currentDepthMap, validityIntegralBuffer, activeKeyFrame,
                    activeKeyFrameIsReactivated, activeKeyFramelock, activeMutex, referenceFrameByID,
                    referenceFrameByID_offset, depthHasBeenUpdatedFlag, keyFrameDepth,
                    numMappedOnThis, rescaleFactor, observed, calls, lastOp, nOps, fusion, stereo, window, warp, epl >>

\* the worker reading the neighbours in currentDepthMap, the buffer being written
RegularizeWorker_InPlace(c) ==
    /\ reduce.job = "regularizeDepthMap"
    /\ Pending(c) # {}
    /\ \E idx \in { NextOf(Pending(c)) } :
          /\ currentDepthMap' =
                Stored([currentDepthMap EXCEPT ![idx] =
                    RegularizeCell(@, currentDepthMap, idx, reduce.removeOcclusions,
                                   VAL_SUM_MIN_FOR_KEEP)])
          /\ reduce' = Visited(idx)
    /\ UNCHANGED << otherDepthMap, validityIntegralBuffer, activeKeyFrame,
                    activeKeyFrameIsReactivated, activeKeyFramelock, activeMutex, referenceFrameByID,
                    referenceFrameByID_offset, depthHasBeenUpdatedFlag, keyFrameDepth,
                    numMappedOnThis, rescaleFactor, observed, calls, lastOp, nOps, fusion, stereo, window, warp, epl >>
\* one cell of regularizeDepthMapRow, run by the worker of chunk c: it reads
\* otherDepthMap and writes its own cell of currentDepthMap
RegularizeWorker(c) ==
    /\ reduce.job = "regularizeDepthMap"
    /\ Pending(c) # {}
    /\ \E idx \in { NextOf(Pending(c)) } :
          /\ currentDepthMap' =
                Stored([currentDepthMap EXCEPT ![idx] =
                    RegularizeCell(@, otherDepthMap, idx, reduce.removeOcclusions,
                                   VAL_SUM_MIN_FOR_KEEP)])
          /\ reduce' = Visited(idx)
    /\ UNCHANGED << otherDepthMap, validityIntegralBuffer, activeKeyFrame,
                    activeKeyFrameIsReactivated, activeKeyFramelock, activeMutex, referenceFrameByID,
                    referenceFrameByID_offset, depthHasBeenUpdatedFlag, keyFrameDepth,
                    numMappedOnThis, rescaleFactor, observed, calls, lastOp, nOps, fusion, stereo, window, warp, epl >>

\* updateKeyframe up to the start of the observeDepth workers: the window of references
StartObserve(i, stride) ==
    /\ reduce = NoReduce
    /\ IsValidMap
    /\ FrameId(ObserveInputs[i].refs[1]) > FrameId(activeKeyFrame)
    /\ referenceFrameByID' =
          BuildByID(<< >>, FrameId(ObserveInputs[i].refs[1]), ObserveInputs[i].refs, 1)
    /\ referenceFrameByID_offset' = FrameId(ObserveInputs[i].refs[1])
    /\ reduce' = [job |-> "observeDepth", stride |-> stride,
                  removeOcclusions |-> FALSE, input |-> i,
                  start |-> currentDepthMap, done |-> {}, outOfOrder |-> FALSE]
    /\ UNCHANGED << currentDepthMap, otherDepthMap, validityIntegralBuffer, activeKeyFrame,
                    activeKeyFrameIsReactivated, activeKeyFramelock, activeMutex,
                    depthHasBeenUpdatedFlag, keyFrameDepth,
                    numMappedOnThis, rescaleFactor, observed, calls, lastOp, nOps, fusion, stereo, window, warp, epl >>

\* what the observeDepth workers of the phase in progress read besides their cells
JobContext ==
    ObserveContext(ObserveInputs[reduce.input].refs, ObserveInputs[reduce.input].raw,
                   ObserveInputs[reduce.input].allowNeg)

\* the worker taking the prior of a cell from the cell above it when that one is valid
ObserveWorker_PriorFromAbove(c) ==
    /\ reduce.job = "observeDepth"
    /\ Pending(c) # {}
    /\ \E idx \in { NextOf(Pending(c)) } :
          /\ currentDepthMap' =
                Stored([currentDepthMap EXCEPT ![idx] =
                    ObserveCell(IF currentDepthMap[idx - W].isValid
                                THEN currentDepthMap[idx - W] ELSE @, idx, JobContext).hyp])
          /\ reduce' = Visited(idx)
    /\ UNCHANGED << otherDepthMap, validityIntegralBuffer, activeKeyFrame,
                    activeKeyFrameIsReactivated, activeKeyFramelock, activeMutex, referenceFrameByID,
                    referenceFrameByID_offset, depthHasBeenUpdatedFlag, keyFrameDepth,
                    numMappedOnThis, rescaleFactor, observed, calls, lastOp, nOps, fusion, stereo, window, warp, epl >>
\* one cell of observeDepthRow, run by the worker of chunk c, in place in currentDepthMap
ObserveWorker(c) ==
    /\ reduce.job = "observeDepth"
    /\ Pending(c) # {}
    /\ \E idx \in { NextOf(Pending(c)) } :
          /\ currentDepthMap' =
                Stored([currentDepthMap EXCEPT ![idx] = ObserveCell(@, idx, JobContext).hyp])
          /\ reduce' = Visited(idx)
    /\ UNCHANGED << otherDepthMap, validityIntegralBuffer, activeKeyFrame,
                    activeKeyFrameIsReactivated, activeKeyFramelock, activeMutex, referenceFrameByID,
                    referenceFrameByID_offset, depthHasBeenUpdatedFlag, keyFrameDepth,
                    numMappedOnThis, rescaleFactor, observed, calls, lastOp, nOps, fusion, stereo, window, warp, epl >>

ReduceNext ==
    \/ SeedMap
    \/ \E removeOcclusions \in BOOLEAN, stride \in ReduceStrides :
          StartRegularize(removeOcclusions, stride)
    \/ \E c \in ReduceChunks : RegularizeWorker(c)
    \/ \E i \in 1 .. NumInputs, stride \in ReduceStrides : StartObserve(i, stride)
    \/ \E c \in ReduceChunks : ObserveWorker(c)

SpecReduce == Init /\ [][ReduceNext]_vars

(***************************************************************************)
(* doLineStereo on its own.  The geometry in front of the search (epipolar *)
(* line, end points, their range tests) is taken by its outcome; the       *)
(* search reads the five key samples and the reference samples along the   *)
(* line.  Eigen::VectorXf eA(5), eB(5) are built without initial values:   *)
(* eB is read at i = 0, before it is first written, and what it holds      *)
(* there is any of the vectors of Uninitialized.                           *)
(***************************************************************************)
\* how many window positions the loop may visit
MaxSteps == 3
\* image intensities met along the lines
Intensities == {0, 2, 40}
\* the five key samples (intensities_along_line)
KeyLines == { << 0, 0, 0, 0, 0 >>, << 0, 2, 2, 2, 2 >> }
\* the reference samples, starting two steps before pFar: four plus one per position
RECURSIVE RefLinesOf(_)
RefLinesOf(n) ==
    IF n = 0 THEN { << >> }
    ELSE { Append(r, v) : r \in RefLinesOf(n - 1), v \in Intensities }
RefLines == UNION { RefLinesOf(n + 4) : n \in 1 .. MaxSteps }
\* what the memory of eB may hold before it is written
Uninitialized == { << 0, 0, 0, 0, 0 >>, << -1, -1, -1, -1, -1 >> }
\* the outcome of the geometry: the status it returns, 0 when the search is entered
FrontOutcomes == { -5, -1, -4, 0 }

\* eA.dot(eB), squaredNorm
Dot(a, b) == a[1] * b[1] + a[2] * b[2] + a[3] * b[3] + a[4] * b[4] + a[5] * b[5]
\* ref_intensities - key_intensities at window position i
Residual(ref, key, i) == [k \in 1 .. 5 |-> ref[i + k] - key[k]]

\* the variables of the search before its first iteration
SearchStart(garbage) ==
    [min_error |-> PosInf, second_min_error |-> PosInf,
     curr_argmin |-> -1, second_argmin |-> -1,
     prev_error |-> NaN, next_error |-> NaN, prev_diff |-> NaN, next_diff |-> NaN,
     prev_error_ |-> RInt(-1), eA |-> garbage, eB |-> garbage]
\* a new winner that leaves the second best as it was
NewWinner_SecondKept(s, i, error, eA, eB) ==
    [s EXCEPT !.min_error = error, !.curr_argmin = i,
              !.prev_error = s.prev_error_, !.prev_diff = RInt(Dot(eA, eB)),
              !.next_error = RInt(-1), !.next_diff = RInt(-1)]
\* a new winner at position i
NewWinner(s, i, error, eA, eB) ==
    [s EXCEPT !.second_min_error = s.min_error, !.second_argmin = s.curr_argmin,
              !.min_error = error, !.curr_argmin = i,
              !.prev_error = s.prev_error_, !.prev_diff = RInt(Dot(eA, eB)),
              !.next_error = RInt(-1), !.next_diff = RInt(-1)]
\* no new winner at position i: the successor of the winner and the second best
SecondBest(s, i, error) ==
    IF RLt(error, s.second_min_error)
    THEN [s EXCEPT !.second_min_error = error, !.second_argmin = i] ELSE s
NoWinner(s, i, error, eA, eB) ==
    SecondBest(IF i - 1 = s.curr_argmin
               THEN [s EXCEPT !.next_error = error, !.next_diff = RInt(Dot(eA, eB))]
               ELSE s,
               i, error)
\* one iteration of the search loop, e the residual at position i
SearchStep(s, i, e, eA, eB) ==
    [ (IF RLt(RInt(Dot(e, e)), s.min_error)
       THEN NewWinner(s, i, RInt(Dot(e, e)), eA, eB)
       ELSE NoWinner(s, i, RInt(Dot(e, e)), eA, eB))
      EXCEPT !.prev_error_ = RInt(Dot(e, e)), !.eA = eA, !.eB = eB ]
RECURSIVE SearchLoop(_, _, _, _)
SearchLoop(s, i, ref, key) ==
    IF i + 5 > Len(ref) THEN s
    ELSE SearchLoop(SearchStep(s, i, Residual(ref, key, i),
                               IF i % 2 = 0 THEN Residual(ref, key, i) ELSE s.eA,
                               IF i % 2 = 0 THEN s.eB ELSE Residual(ref, key, i)),
                    i + 1, ref, key)

\* the four half gradients of the sub-pixel step and the side it interpolates on
Negative(x) == RLt(x, Zero)
\* a decision that gives up when the two central gradients agree in sign
InterpolationSide_SameSignStops(s, enablePrintDebugInfo) ==
    LET grad_prev_prev == RNeg(RSub(s.prev_error, s.prev_diff))
        grad_prev_curr == RSub(s.min_error, s.prev_diff)
        grad_next_curr == RNeg(RSub(s.min_error, s.next_diff))
        grad_next_next == RSub(s.next_error, s.next_diff)
    IN  IF enablePrintDebugInfo /\ (Negative(s.prev_error) \/ Negative(s.next_error))
        THEN "atEnd"
        ELSE IF Negative(grad_next_curr) = Negative(grad_prev_curr) THEN "inexistantCrossing"
        ELSE IF Negative(grad_prev_prev) # Negative(grad_prev_curr)
             THEN (IF Negative(grad_next_next) # Negative(grad_next_curr)
                   THEN "twoCrossing" ELSE "prev")
        ELSE IF Negative(grad_next_next) # Negative(grad_next_curr) THEN "next"
        ELSE "noCrossing"
InterpolationSide(s, enablePrintDebugInfo) ==
    LET grad_prev_prev == RNeg(RSub(s.prev_error, s.prev_diff))
        grad_prev_curr == RSub(s.min_error, s.prev_diff)
        grad_next_curr == RNeg(RSub(s.min_error, s.next_diff))
        grad_next_next == RSub(s.next_error, s.next_diff)
    IN  IF enablePrintDebugInfo /\ (Negative(s.prev_error) \/ Negative(s.next_error))
        THEN "atEnd"
        ELSE IF Negative(grad_next_curr) # Negative(grad_prev_curr) THEN "inexistantCrossing"
        ELSE IF Negative(grad_prev_prev) # Negative(grad_prev_curr)
             THEN (IF Negative(grad_next_next) # Negative(grad_next_curr)
                   THEN "twoCrossing" ELSE "prev")
        ELSE IF Negative(grad_next_next) # Negative(grad_next_curr) THEN "next"
        ELSE "noCrossing"
\* min_error after interpolation on the side of the previous position
InterpolatePrev(min_error, grad_prev_curr, grad_prev_prev, d) ==
    RSub(RSub(min_error, RMul(RMul(RInt(2), d), grad_prev_curr)),
         RMul(RMul(RSub(grad_prev_prev, grad_prev_curr), d), d))
\* min_error after interpolation on the side of the next position
InterpolateNext(min_error, grad_next_curr, grad_next_next, d) ==
    RAdd(RAdd(min_error, RMul(RMul(RInt(2), d), grad_next_curr)),
         RMul(RMul(RSub(grad_next_next, grad_next_curr), d), d))
\* min_error after the sub-pixel step
Subpixel(s, side) ==
    IF side = "prev"
    THEN InterpolatePrev(s.min_error, RSub(s.min_error, s.prev_diff),
                         RNeg(RSub(s.prev_error, s.prev_diff)),
                         RDiv(RSub(s.min_error, s.prev_diff),
                              RSub(RSub(s.min_error, s.prev_diff),
                                   RNeg(RSub(s.prev_error, s.prev_diff)))))
    ELSE IF side = "next"
    THEN InterpolateNext(s.min_error, RNeg(RSub(s.min_error, s.next_diff)),
                         RSub(s.next_error, s.next_diff),
                         RDiv(RNeg(RSub(s.min_error, s.next_diff)),
                              RSub(RNeg(RSub(s.min_error, s.next_diff)),
                                   RSub(s.next_error, s.next_diff))))
    ELSE s.min_error

\* calc_grad_along_line at key_sample_distance 1, and its root (the key lines drawn
\* have a square gradient)
GradAlongLine(key) ==
    (key[2] - key[1]) * (key[2] - key[1]) + (key[3] - key[2]) * (key[3] - key[2])
        + (key[4] - key[3]) * (key[4] - key[3]) + (key[5] - key[4]) * (key[5] - key[4])
Sqrtf(n) == CHOOSE r \in 0 .. n : r * r <= n /\ (r + 1) * (r + 1) > n

\* a return of a status: the three results are left as the caller passed them
StereoStatus(code) == [error |-> RInt(code), resultsSet |-> FALSE, side |-> "none"]
\* the tests behind the sub-pixel step and the final "return min_error"
StereoTail(in, min_error, side) ==
    IF RGt(min_error, RAdd(MAX_ERROR_STEREO, RInt(Sqrtf(GradAlongLine(in.key)) * 20)))
    THEN StereoStatus(-3)
    ELSE IF RLt(in.idnew_best_match, Zero) /\ ~in.allowNegativeIdepths
    THEN StereoStatus(-2)
    ELSE [error |-> min_error, resultsSet |-> TRUE, side |-> side]
\* the tests between the search and the sub-pixel step
StereoSearched(in, s) ==
    IF RGt(s.min_error, RMul(RInt(4), MAX_ERROR_STEREO)) THEN StereoStatus(-3)
    ELSE IF Abs(s.curr_argmin - s.second_argmin) > 1
            /\ RGt(RMul(MIN_DISTANCE_ERROR_STEREO, s.min_error), s.second_min_error)
    THEN StereoStatus(-2)
    ELSE IF in.useSubpixelStereo
    THEN StereoTail(in, Subpixel(s, InterpolationSide(s, in.enablePrintDebugInfo)),
                    InterpolationSide(s, in.enablePrintDebugInfo))
    ELSE StereoTail(in, s.min_error, "off")
\* doLineStereo: what it returns and whether it has set its three results
doLineStereo(in, garbage) ==
    IF in.front # 0 THEN StereoStatus(in.front)
    ELSE StereoSearched(in, SearchLoop(SearchStart(garbage), 0, in.ref, in.key))

\* the settings and the sign of the depth found, as they come together
StereoModes ==
    { [useSubpixelStereo |-> u, enablePrintDebugInfo |-> d, allowNegativeIdepths |-> a,
       idnew_best_match |-> IF a THEN R(-1, 2) ELSE id] :
          u \in BOOLEAN, d \in BOOLEAN, a \in BOOLEAN, id \in { One, R(-1, 2) } }
StereoInput(f, ref, key, m) ==
    [front |-> f, ref |-> ref, key |-> key,
     useSubpixelStereo |-> m.useSubpixelStereo,
     enablePrintDebugInfo |-> m.enablePrintDebugInfo,
     allowNegativeIdepths |-> m.allowNegativeIdepths,
     idnew_best_match |-> m.idnew_best_match]
\* the calls drawn: every search, and one call per way the geometry fails
StereoInputs ==
    { StereoInput(0, ref, key, m) : ref \in RefLines, key \in KeyLines, m \in StereoModes }
        \cup { StereoInput(f, << 0, 0, 0, 0, 0 >>, << 0, 0, 0, 0, 0 >>, m) :
                   f \in FrontOutcomes \ {0}, m \in StereoModes }

\* one call of doLineStereo
DoLineStereo(in, garbage) ==
    /\ stereo = NoStereo
    /\ stereo' = [call |-> "doLineStereo", in |-> in, garbage |-> garbage,
                  out |-> doLineStereo(in, garbage)]
    /\ UNCHANGED << mainVars, fusion, reduce, window, warp, epl >>

StereoNext ==
    /\ stereo = NoStereo
    /\ \E in \in StereoInputs, garbage \in Uninitialized : DoLineStereo(in, garbage)

SpecStereo == Init /\ [][StereoNext]_vars

(***************************************************************************)
(* The choice of the reference frame on its own: one call of               *)
(* observeDepthUpdate for one valid cell, against a window of reference    *)
(* frames as updateKeyframe lays it out.  The frames of a window come in   *)
(* the order they were tracked (ids ascending), after the keyframe; a      *)
(* cell's nextStereoFrameMinID is 0 or was set by an earlier successful    *)
(* update to the id of its reference frame plus an increment of at least 3.*)
(***************************************************************************)
\* the largest frame id a window holds
MaxFrameId == 6
\* the keyframe of the windows and the cell observed
WindowKeyFrame == 1
WindowCell == Idx(3, 3)
WindowFrameIds == (WindowKeyFrame + 1) .. MaxFrameId
\* referenceFrames: one to three frames, ids ascending
Windows ==
    { << a >> : a \in WindowFrameIds }
        \cup { r \in WindowFrameIds \X WindowFrameIds : r[1] < r[2] }
        \cup { r \in WindowFrameIds \X WindowFrameIds \X WindowFrameIds :
                   r[1] < r[2] /\ r[2] < r[3] }
\* the values of nextStereoFrameMinID
WindowMinIDs == {0} \cup ((WindowKeyFrame + 4) .. (MaxFrameId + 2))
\* the stereo results tried: a long epipolar line, a short one, a bad match
WindowStereo == { 1, 8, 3 }
\* the cell before the call
WindowTarget(minID) ==
    [Hyp5(One, One, R(1, 16), R(1, 16), 10) EXCEPT !.nextStereoFrameMinID = minID]
\* what updateKeyframe lays out for the window refs (lines 1041-1069)
WindowContext(refs, reactivated, o) ==
    [kf |-> WindowKeyFrame, grad |-> MaxGradients(WindowKeyFrame),
     reactivated |-> reactivated,
     oldest |-> refs[1], newest |-> refs[Len(refs)],
     byID |-> BuildByID(<< >>, FrameId(refs[1]), refs, 1), offset |-> FrameId(refs[1]),
     stereo |-> StereoAt(o, TRUE),
     mapped |-> 0]

\* one call of observeDepthUpdate: the frame it runs stereo against (0: none) and
\* what it leaves in the cell
ObserveDepthUpdate(refs, minID, reactivated, o) ==
    /\ window = NoWindow
    /\ \E ctx \in { WindowContext(refs, reactivated, o) }, target \in { WindowTarget(minID) } :
          window' = [call |-> "observeDepthUpdate", refs |-> refs, target |-> target,
                     reactivated |-> reactivated,
                     refFrame |-> IF UpdateSkips(target, ctx) THEN 0
                                  ELSE UpdateRefFrame(target, ctx),
                     out |-> observeDepthUpdate(target, WindowCell, ctx)]
    /\ UNCHANGED << mainVars, fusion, reduce, stereo, warp, epl >>

WindowNext ==
    /\ window = NoWindow
    /\ \E refs \in Windows, minID \in WindowMinIDs, reactivated \in BOOLEAN, o \in WindowStereo :
          ObserveDepthUpdate(refs, minID, reactivated, o)

SpecWindow == Init /\ [][WindowNext]_vars

(***************************************************************************)
(* The loop body of propagateDepth on its own: one valid source cell of    *)
(* the old keyframe is warped into the new keyframe, whose map is empty or *)
(* already holds a hypothesis in every cell.                               *)
(***************************************************************************)
\* idepth_smoothed of the source
WarpIdepths == { R(1, 2), One, R(3, 2), RInt(2) }
\* the old and the new keyframe
WarpFrames == { << 1, 2 >>, << 1, 3 >>, << 2, 3 >> }
\* the source hypothesis
WarpSource(id) == Hyp5(id, id, R(1, 16), R(1, 16), 10)
\* currentDepthMap with the one source
WarpCurrent(source, idx) == Stored([j \in Cells |-> IF j = idx THEN source ELSE HypInvalid])
\* otherDepthMap when the source arrives
WarpOthers == { Stored([j \in Cells |-> HypInvalid]),
                Stored([j \in Cells |-> Hyp3(One, R(1, 16), 10)]) }

\* one iteration of the source loop
PropagateOne(source, idx, frames, other) ==
    /\ warp = NoWarp
    /\ warp' = [call |-> "propagateDepth", source |-> source, idx |-> idx,
                newKF |-> frames[2],
                wp |-> Warp(source, XOf(idx), YOf(idx), frames[2]),
                before |-> other,
                after |-> PropStep(other, WarpCurrent(source, idx), idx, frames[1], frames[2])]
    /\ UNCHANGED << mainVars, fusion, reduce, stereo, window, epl >>

WarpNext ==
    /\ warp = NoWarp
    /\ \E id \in WarpIdepths, idx \in Cells, frames \in WarpFrames, other \in WarpOthers :
          PropagateOne(WarpSource(id), idx, frames, other)

SpecWarp == Init /\ [][WarpNext]_vars

(***************************************************************************)
(* The geometry of the search of doLineStereo on its own: the five         *)
(* keyframe taps, the search segment pFar .. pClose in the reference       *)
(* image after cropping, extension and padding, the bounds tests, and the  *)
(* positions the reference image is sampled at.  The projections of the    *)
(* far and the close point are the inputs; the image is larger than the    *)
(* one the mapping operations run on, since no cell of a 7 x 8 image       *)
(* keeps its taps inside the paddings.                                     *)
(***************************************************************************)
SAMPLE_POINT_TO_BORDER    == 7
MAX_EPL_LENGTH_CROP       == R(30, 1)
REFERENCE_SAMPLE_DISTANCE == One
\* "const Eigen::Vector2i image_size(width, height)"
image_size == << W + 12, H + 11 >>

V2Add(a, b) == << RAdd(a[1], b[1]), RAdd(a[2], b[2]) >>
V2Sub(a, b) == << RSub(a[1], b[1]), RSub(a[2], b[2]) >>
V2Scale(k, a) == << RMul(k, a[1]), RMul(k, a[2]) >>
\* Vector2f::norm() (the inputs keep the squared length a square of a rational)
V2Norm(a) ==
    LET sq == RAdd(RSq(a[1]), RSq(a[2]))
    IN  << Sqrtf(sq[1]), Sqrtf(sq[2]) >>
normalize_length(a) == << RDiv(a[1], V2Norm(a)), RDiv(a[2], V2Norm(a)) >>

is_in_image_range(keypoint, size, padding) ==
    /\ RLe(RInt(padding), keypoint[1])
    /\ RLe(RInt(padding), keypoint[2])
    /\ RLe(keypoint[1], RInt(size[1] - 1 - padding))
    /\ RLe(keypoint[2], RInt(size[2] - 1 - padding))
search_range_is_in_image_area(start, end, size) ==
    is_in_image_range(start, size, 2) /\ is_in_image_range(end, size, 2)

\* intensities_along_line: the five positions center - 2 step .. center + 2 step
LineTaps(center, step) == [k \in 1 .. 5 |-> V2Add(center, V2Scale(RInt(k - 3), step))]

\* "if((ref_search_step[0] < 0) != (search_point_ref[0] > pClose[0]) || ...) break;"
LoopBreaks(search_point_ref, pClose, ref_search_step) ==
    \/ RLt(ref_search_step[1], Zero) # RGt(search_point_ref[1], pClose[1])
    \/ RLt(ref_search_step[2], Zero) # RGt(search_point_ref[2], pClose[2])
\* search_point_ref of the iterations of the loop, in order
RECURSIVE LoopPoints(_, _, _)
LoopPoints(search_point_ref, pClose, ref_search_step) ==
    IF LoopBreaks(search_point_ref, pClose, ref_search_step) THEN << >>
    ELSE << search_point_ref >>
         \o LoopPoints(V2Add(search_point_ref, ref_search_step), pClose, ref_search_step)

\* a return before the search: nothing was sampled
EplStatus(code) == [status |-> code, key |-> << >>, ref |-> << >>, loop |-> << >>]

\* the search segment and the samples taken along it
EplSearch(keyTaps, pFar0, pClose0) ==
    LET dir       == normalize_length(V2Sub(pClose0, pFar0))
        step      == V2Scale(REFERENCE_SAMPLE_DISTANCE, dir)
        eplLength == V2Norm(V2Sub(pClose0, pFar0))
        pCloseC   == IF RGt(eplLength, MAX_EPL_LENGTH_CROP)
                     THEN V2Add(pFar0, V2Scale(MAX_EPL_LENGTH_CROP, dir))
                     ELSE pClose0
        pad       == RDiv(RSub(MIN_EPL_LENGTH_CROP, eplLength), RInt(2))
        short     == RLt(eplLength, MIN_EPL_LENGTH_CROP)
        pFar      == IF short THEN V2Sub(V2Sub(pFar0, step), V2Scale(pad, step))
                     ELSE V2Sub(pFar0, step)
        pClose    == IF short THEN V2Add(V2Add(pCloseC, step), V2Scale(pad, step))
                     ELSE V2Add(pCloseC, step)
        points    == LoopPoints(pFar, pClose, step)
    IN  IF eplLength = Zero \/ ~IsFinite(eplLength) THEN EplStatus(-4)
        ELSE IF \/ ~is_in_image_range(pFar, image_size, SAMPLE_POINT_TO_BORDER + 1)
                \/ ~is_in_image_range(pClose, image_size, 1)
        THEN EplStatus(-1)
        ELSE [status |-> 0,
              key |-> keyTaps,
              ref |-> [k \in 1 .. 4 |-> V2Add(pFar, V2Scale(RInt(k - 3), step))],
              loop |-> [i \in 1 .. Len(points) |->
                           V2Add(points[i], V2Scale(RInt(2), step))]]

\* doLineStereo from the sample distance in the keyframe to the end of the loop
EplGeometry(keyframe_coordinate, key_epipolar_direction, inv_depth_ratio, pFar0, pClose0) ==
    LET key_sample_distance == RMul(REFERENCE_SAMPLE_DISTANCE, inv_depth_ratio)
        keyStep == V2Scale(key_sample_distance, key_epipolar_direction)
    IN  IF ~search_range_is_in_image_area(V2Sub(keyframe_coordinate, V2Scale(RInt(2), keyStep)),
                                          V2Add(keyframe_coordinate, V2Scale(RInt(2), keyStep)),
                                          image_size)
        THEN EplStatus(-1)
        ELSE IF ~(RGt(inv_depth_ratio, R(7, 10)) /\ RLt(inv_depth_ratio, R(14, 10)))
        THEN EplStatus(-1)
        ELSE EplSearch(LineTaps(keyframe_coordinate, keyStep), pFar0, pClose0)

\* unit directions with rational components
EplDirections == { << One, Zero >>, << RInt(-1), Zero >>, << Zero, One >>, << Zero, RInt(-1) >>,
                   << R(3, 5), R(4, 5) >>, << R(-3, 5), R(-4, 5) >>,
                   << R(4, 5), R(-3, 5) >>, << R(-4, 5), R(3, 5) >> }
\* the keyframe pixel, its epipolar direction and the depth ratio
EplKeys == { << RInt(9), RInt(9) >>, << RInt(2), RInt(9) >> }
           \X { << One, Zero >>, << Zero, One >>, << R(3, 5), R(4, 5) >> }
           \X { R(1, 2), One, R(5, 4) }
\* the projection of the far point and the length of the segment to the close point
EplFarPoints == { << RInt(x), RInt(y) >> : x \in 9 .. 11, y \in 9 .. 11 }
EplLengths == { 0, 1, 3, 5, 6, 7, 40 }

SampleLine(k, pFar0, dir, len) ==
    /\ epl = NoEpl
    /\ epl' = [call |-> "doLineStereo", keyframe_coordinate |-> k[1],
               pFar |-> pFar0, pClose |-> V2Add(pFar0, V2Scale(RInt(len), dir)),
               out |-> EplGeometry(k[1], k[2], k[3], pFar0, V2Add(pFar0, V2Scale(RInt(len), dir)))]
    /\ UNCHANGED << mainVars, fusion, reduce, stereo, window, warp >>

EplNext ==
    /\ epl = NoEpl
    /\ \E k \in EplKeys, pFar0 \in EplFarPoints, dir \in EplDirections, len \in EplLengths :
          SampleLine(k, pFar0, dir, len)

SpecEpl == Init /\ [][EplNext]_vars

(***************************************************************************)
(* Properties of the depth map                                             *)
(***************************************************************************)
\* the step just taken is a call of the public operation op
StepOf(op) == lastOp' = op /\ nOps' = nOps + 1
\* |v| is not below the UNZERO epsilon
NotBelowEps(v) == ~(RLt(v, UNZERO_EPS) /\ RGt(v, RNeg(UNZERO_EPS)))
InRange(idx, lo, hiX, hiY) ==
    XOf(idx) >= lo /\ XOf(idx) <= hiX /\ YOf(idx) >= lo /\ YOf(idx) <= hiY

C2_AsStated ==
    \A idx \in Cells :
        ~InRange(idx, 3, W - 4, H - 4) => ~currentDepthMap[idx].isValid

\* C2, amended: updateKeyframe and finalizeKeyFrame make a cell valid only inside
\* 3 <= x <= W-3, 3 <= y <= H-3 (observeDepth only for x < W-3, y < H-3), and after
\* createKeyFrame every valid cell lies inside 2 <= x <= W-3, 2 <= y <= H-3; the seeding
\* operations are not restricted to that region.
C2_NewCellsInterior ==
    [][ /\ (StepOf("updateKeyframe") \/ StepOf("finalizeKeyFrame")) =>
              \A idx \in Cells :
                  /\ (~currentDepthMap[idx].isValid /\ currentDepthMap'[idx].isValid)
                        => InRange(idx, 3, W - 3, H - 3)
                  /\ observed'[idx].tag = "created" => InRange(idx, 3, W - 4, H - 4)
        /\ StepOf("createKeyFrame") =>
              \A idx \in Cells :
                  currentDepthMap'[idx].isValid => InRange(idx, 2, W - 3, H - 3)
      ]_vars
\* observeDepth created a hypothesis that is valid at the end of updateKeyframe
C2_Created ==
    /\ lastOp = "updateKeyframe"
    /\ \E idx \in Cells : observed[idx].tag = "created" /\ currentDepthMap[idx].isValid

(*------------------------------- C3 ------------------------------------*)
\* C3 as stated: an invalid cell with blacklisted < MIN_BLACKLIST is never made valid
\* by observeDepth or by regularizeDepthMapFillHoles.
C3_AsStated ==
    [][ (StepOf("updateKeyframe") \/ StepOf("finalizeKeyFrame")) =>
            \A idx \in Cells :
                (~currentDepthMap[idx].isValid /\ currentDepthMap[idx].blacklisted < MIN_BLACKLIST)
                    => ~currentDepthMap'[idx].isValid
      ]_vars

\* C3, amended: observeDepth never installs a hypothesis in an invalid cell with
\* blacklisted < MIN_BLACKLIST, and regularizeDepthMapFillHoles installs one only when
\* the 5x5 validity sum of the cell exceeds VAL_SUM_MIN_FOR_UNBLACKLIST.
C3_OnlyUnblacklist ==
    [][ (StepOf("updateKeyframe") \/ StepOf("finalizeKeyFrame")) =>
            \A idx \in Cells :
                (/\ ~currentDepthMap[idx].isValid
                 /\ currentDepthMap[idx].blacklisted < MIN_BLACKLIST
                 /\ currentDepthMap'[idx].isValid)
                    => /\ observed'[idx].tag \notin {"created", "updated"}
                       /\ idx \in FillCells
                       /\ WindowVal(validityIntegralBuffer', idx) > VAL_SUM_MIN_FOR_UNBLACKLIST
      ]_vars
\* hole filling went over a blacklisted cell with enough gradient and some valid
\* neighbours, and left it invalid
C3_StaysBlacklisted ==
    /\ lastOp = "finalizeKeyFrame"
    /\ \E idx \in FillCells :
          /\ ~currentDepthMap[idx].isValid
          /\ currentDepthMap[idx].blacklisted < MIN_BLACKLIST
          /\ MaxGradients(activeKeyFrame)[idx] >= MIN_ABS_GRAD_DECREASE
          /\ WindowVal(validityIntegralBuffer, idx) > VAL_SUM_MIN_FOR_CREATE

(*------------------------------- C4 ------------------------------------*)
\* C4 as stated: after creation, observation update, hole filling, propagation, the
\* rescale of createKeyFrame and the load of setFromExistingKF, |idepth| of the cell is
\* not below the UNZERO epsilon.
C4_AsStated ==
    /\ lastOp \in {"createKeyFrame", "setFromExistingKF"} =>
          \A idx \in Cells :
              currentDepthMap[idx].isValid => NotBelowEps(currentDepthMap[idx].idepth)
    /\ lastOp = "updateKeyframe" =>
          \A idx \in Cells :
              observed[idx].tag \in {"created", "updated"} => NotBelowEps(observed[idx].hyp.idepth)

\* C4, amended: after creation and after a successful observation update in
\* observeDepth, and after hole filling, |idepth| of the cell is not below the UNZERO
\* epsilon, and regularizeDepthMap leaves |idepth_smoothed| of every valid cell it
\* visits not below it; propagation, the rescale and the load store idepth as computed.
C4_UnzeroWhereApplied ==
    [][ (StepOf("updateKeyframe") \/ StepOf("finalizeKeyFrame")) =>
            \A idx \in Cells :
                /\ observed'[idx].tag \in {"created", "updated"}
                      => NotBelowEps(observed'[idx].hyp.idepth)
                /\ (~currentDepthMap[idx].isValid /\ currentDepthMap'[idx].isValid)
                      => NotBelowEps(currentDepthMap'[idx].idepth)
                /\ (idx \in RegCells /\ currentDepthMap'[idx].isValid)
                      => NotBelowEps(currentDepthMap'[idx].idepth_smoothed)
      ]_vars
\* a hypothesis was created from a stereo result below the epsilon
C4_CreatedFromTiny ==
    /\ lastOp = "updateKeyframe"
    /\ \E idx \in Cells :
          /\ observed[idx].tag = "created"
          /\ observed[idx].hyp.idepth = UNZERO_EPS

(*------------------------------- C5 ------------------------------------*)
\* C5 as stated: every valid cell has validity_counter in
\* [0, VALIDITY_COUNTER_MAX + grad * VALIDITY_COUNTER_MAX_VARIABLE / 255].
C5_AsStated ==
    activeKeyFrame # 0 =>
        \A idx \in Cells :
            currentDepthMap[idx].isValid =>
                /\ currentDepthMap[idx].validity_counter >= 0
                /\ RLe(RInt(currentDepthMap[idx].validity_counter),
                       ValidityLimit(MaxGradients(activeKeyFrame)[idx]))

\* C5, amended: right after a successful observation update the cell's validity_counter
\* is in [0, VALIDITY_COUNTER_MAX + grad * VALIDITY_COUNTER_MAX_VARIABLE / 255], and the
\* decrement of a failed observation does not take it below 0; seeding, creation,
\* propagation and the load set the counter without regard to the gradient.
C5_BoundedAfterUpdate ==
    lastOp = "updateKeyframe" =>
        \A idx \in Cells :
            /\ observed[idx].tag = "updated" =>
                  /\ observed[idx].hyp.validity_counter >= 0
                  /\ RLe(RInt(observed[idx].hyp.validity_counter),
                         ValidityLimit(MaxGradients(activeKeyFrame)[idx]))
            /\ observed[idx].tag = "notGood" => observed[idx].hyp.validity_counter >= 0
\* a successful update hit the upper bound of the counter
C5_Saturated ==
    /\ lastOp = "updateKeyframe"
    /\ \E idx \in Cells :
          /\ observed[idx].tag = "updated"
          /\ observed[idx].hyp.validity_counter = ValidityBound(MaxGradients(activeKeyFrame)[idx])

(*------------------------------- C6 ------------------------------------*)
\* C6 as stated: after observeDepth has processed a cell, whatever the stereo outcome,
\* the cell is not both valid and with idepth_var > MAX_VAR.
C6_AsStated ==
    lastOp = "updateKeyframe" =>
        \A idx \in ObserveCells :
            ~(observed[idx].hyp.isValid /\ RGt(observed[idx].hyp.idepth_var, MAX_VAR))

\* C6, amended: after observeDepth, a cell whose observation inflated the variance (bad
\* match -2, or a result inconsistent with the hypothesis) or created the hypothesis is
\* not both valid and with idepth_var > MAX_VAR; a cell that was skipped, retained or
\* successfully updated keeps the variance it has, above MAX_VAR or not.
C6_InflatedOrCreated ==
    lastOp = "updateKeyframe" =>
        \A idx \in ObserveCells :
            observed[idx].tag \in {"notGood", "inconsistent", "created"} =>
                ~(observed[idx].hyp.isValid /\ RGt(observed[idx].hyp.idepth_var, MAX_VAR))
\* a failed observation took the variance above MAX_VAR and the cell was invalidated
C6_Invalidated ==
    /\ lastOp = "updateKeyframe"
    /\ \E idx \in ObserveCells :
          /\ observed[idx].tag \in {"notGood", "inconsistent"}
          /\ ~observed[idx].hyp.isValid
          /\ RGt(observed[idx].hyp.idepth_var, MAX_VAR)

(*------------------------------- C7 ------------------------------------*)
\* the mean of idepth_smoothed over the valid cells of the map
MeanIdepthSmoothed(map) ==
    RDiv(RSumOver([idx \in Cells |-> map[idx].idepth_smoothed], ValidCells(map)),
         RInt(Cardinality(ValidCells(map))))
\* C7: after every createKeyFrame the mean of idepth_smoothed over the valid cells of
\* the current map is 1, also when propagation leaves few or no valid cells.
C7_MeanIsOne ==
    lastOp = "createKeyFrame" => MeanIdepthSmoothed(currentDepthMap) = One

(*------------------------------- C8 ------------------------------------*)
\* the sum of validity_counter over the valid cells of the 5x5 window centred at idx
DirectWindowSum(map, idx) ==
    ISumOver([j \in Cells |-> map[j].validity_counter],
             { j \in Window5(idx) : map[j].isValid })
\* C8: after buildRegIntegralBuffer, for every cell hole filling visits, the window sum
\* I(x+2,y+2) - I(x-3,y+2) - I(x+2,y-3) + I(x-3,y-3) read from the integral buffer equals
\* the direct sum of validity_counter over the valid cells of the 5x5 window (in
\* finalizeKeyFrame the buffer is built from the map as it stood, in updateKeyframe from
\* the map observeDepth left).
C8_WindowSums ==
    [][ /\ StepOf("finalizeKeyFrame") =>
              \A idx \in FillCells :
                  WindowVal(validityIntegralBuffer', idx) = DirectWindowSum(currentDepthMap, idx)
        /\ StepOf("updateKeyframe") =>
              \A idx \in FillCells :
                  WindowVal(validityIntegralBuffer', idx)
                      = DirectWindowSum([j \in Cells |-> observed'[j].hyp], idx)
      ]_vars
\* a buffer built over a map with valid and invalid cells in the windows, two windows
\* with different sums
C8_BufferBuilt ==
    /\ lastOp \in {"finalizeKeyFrame", "updateKeyframe"}
    /\ \E idx \in FillCells, jdx \in FillCells :
          /\ WindowVal(validityIntegralBuffer, idx) > 0
          /\ WindowVal(validityIntegralBuffer, idx) # WindowVal(validityIntegralBuffer, jdx)

(*------------------------------- C9 ------------------------------------*)
\* the two orders give the same posterior
SamePosterior ==
    /\ fusion.ab.idepth = fusion.ba.idepth
    /\ fusion.ab.idepth_var = fusion.ba.idepth_var
\* neither estimate occludes the other at the destination
NonOccluding ==
    /\ ~PropOccludes(fusion.a, fusion.b.idepth, fusion.b.idepth_var)
    /\ ~PropOccludes(fusion.b, fusion.a.idepth, fusion.a.idepth_var)
\* C9 as stated: fusing A then B gives the same (idepth, idepth_var) as fusing B then A,
\* for two successive successful observation updates and for two non-occluding
\* hypotheses merged at one destination cell of propagateDepth.
C9_AsStated ==
    /\ fusion.law = "observeDepthUpdate" => SamePosterior
    /\ (fusion.law = "propagateDepth" /\ NonOccluding) => SamePosterior

\* C9, amended: two non-occluding hypotheses merged at one destination cell of
\* propagateDepth give the same idepth, idepth_var and validity_counter in either order
\* (up to rounding); two successive observation updates in observeDepthUpdate do not:
\* each update first inflates the prior variance by SUCC_VAR_INC_FAC and keeps the
\* smaller of the old and the new variance.
C9_MergeSymmetric ==
    (fusion.law = "propagateDepth" /\ NonOccluding) =>
        /\ SamePosterior
        /\ fusion.ab.validity_counter = fusion.ba.validity_counter
\* two different estimates were merged, and the posterior is neither of them
C9_Merged ==
    /\ fusion.law = "propagateDepth"
    /\ NonOccluding
    /\ fusion.a.idepth # fusion.b.idepth
    /\ fusion.a.idepth_var # fusion.b.idepth_var
    /\ fusion.ab.idepth \notin {fusion.a.idepth, fusion.b.idepth}

(*------------------------------- C10 -----------------------------------*)
UpdatePhases == << "observeDepth", "regularizeDepthMapFillHoles", "regularizeDepthMap(false)" >>
\* C10 as stated: every updateKeyframe on a valid map runs observeDepth, then
\* regularizeDepthMapFillHoles, then regularizeDepthMap without occlusion removal, and
\* then exports the current map to the active keyframe.
C10_AsStated ==
    lastOp = "updateKeyframe" =>
        /\ calls = UpdatePhases \o << "setDepth" >>
        /\ keyFrameDepth = currentDepthMap

\* C10, amended: every updateKeyframe on a valid map runs observeDepth, then
\* regularizeDepthMapFillHoles, then regularizeDepthMap without occlusion removal, once
\* each and in this order; it then exports the current map to the active keyframe only
\* if the keyframe's depthHasBeenUpdatedFlag is clear, and otherwise returns without
\* an export.
C10_ExportUnlessPending ==
    [][ StepOf("updateKeyframe") =>
            /\ currentDepthMap' = regularizeDepthMap(otherDepthMap', FALSE, VAL_SUM_MIN_FOR_KEEP)
            /\ otherDepthMap' = regularizeDepthMapFillHoles([j \in Cells |-> observed'[j].hyp],
                                                            MaxGradients(activeKeyFrame))
            /\ IF ~depthHasBeenUpdatedFlag[activeKeyFrame]
               THEN /\ calls' = UpdatePhases \o << "setDepth" >>
                    /\ keyFrameDepth' = currentDepthMap'
               ELSE /\ calls' = UpdatePhases
                    /\ keyFrameDepth' = keyFrameDepth
      ]_vars
\* an updateKeyframe that exported, after the tracker had taken the previous depth
C10_Exported ==
    /\ lastOp = "updateKeyframe"
    /\ calls = UpdatePhases \o << "setDepth" >>
    /\ keyFrameDepth = currentDepthMap
    /\ \E idx \in Cells : currentDepthMap[idx].isValid

(*------------------------------- C11 -----------------------------------*)
CreatePhases ==
    << "propagateDepth", "regularizeDepthMap(true)", "regularizeDepthMapFillHoles",
       "regularizeDepthMap(false)", "rescale", "setDepth" >>
\* the map createKeyFrame leaves after its first three phases: propagation out of the old
\* keyframe kf, smoothing with occlusion removal, hole filling on the gradients of newKF
CreateFilled(cur, other, kf, newKF) ==
    regularizeDepthMapFillHoles(
        regularizeDepthMap(propagateDepth(cur, other, kf, newKF), TRUE, VAL_SUM_MIN_FOR_KEEP),
        MaxGradients(newKF))

\* C11: every createKeyFrame call runs, in this order, propagateDepth (out of the old
\* active keyframe), regularizeDepthMap with occlusion removal, regularizeDepthMapFillHoles,
\* regularizeDepthMap without occlusion removal, the mean-idepth rescale and the export
\* to the new keyframe; the new keyframe is the active one (and holds the lock) for
\* every phase after propagation.
C11_CreateOrder ==
    [][ StepOf("createKeyFrame") =>
            /\ calls' = CreatePhases
            /\ activeKeyFrame' # activeKeyFrame
            /\ activeKeyFramelock' = activeKeyFrame'
            /\ otherDepthMap' = CreateFilled(currentDepthMap, otherDepthMap,
                                             activeKeyFrame, activeKeyFrame')
            /\ rescaleFactor' =
                   RescaleFactorOf(regularizeDepthMap(otherDepthMap', FALSE, VAL_SUM_MIN_FOR_KEEP))
            /\ currentDepthMap' =
                   RescaleMap(regularizeDepthMap(otherDepthMap', FALSE, VAL_SUM_MIN_FOR_KEEP),
                              rescaleFactor')
            /\ keyFrameDepth' = currentDepthMap'
            /\ depthHasBeenUpdatedFlag'[activeKeyFrame']
      ]_vars
\* a createKeyFrame that carried hypotheses over to the new keyframe and exported them
C11_Carried ==
    /\ lastOp = "createKeyFrame"
    /\ calls = CreatePhases
    /\ activeKeyFramelock = activeKeyFrame
    /\ keyFrameDepth = currentDepthMap
    /\ \E idx \in Cells : currentDepthMap[idx].isValid

(*------------------------------- C12 -----------------------------------*)
\* C12: the result of regularizeDepthMap does not depend on scheduling.  While the row
\* workers run, otherDepthMap stays the snapshot taken at the start, a cell no worker
\* has visited yet is as it was, and every visited cell holds what the sequential
\* row-by-row run gives it; so every interleaving ends in the map of the sequential run.
C12_ScheduleFree ==
    reduce.job = "regularizeDepthMap" =>
        /\ otherDepthMap = reduce.start
        /\ \A idx \in Cells :
              currentDepthMap[idx] =
                  IF idx \in reduce.done
                  THEN regularizeDepthMap(reduce.start, reduce.removeOcclusions,
                                          VAL_SUM_MIN_FOR_KEEP)[idx]
                  ELSE reduce.start[idx]
\* a finished regularizeDepthMap whose workers did not run row by row and which kept a
\* cell while it invalidated one of the neighbours that cell was smoothed with
C12_Interleaved ==
    /\ reduce.job = "regularizeDepthMap"
    /\ reduce.done = RegCells
    /\ reduce.outOfOrder
    /\ \E a \in RegCells, b \in RegCells :
          /\ b \in Window5(a) \ {a}
          /\ reduce.start[a].isValid /\ currentDepthMap[a].isValid
          /\ reduce.start[b].isValid /\ ~currentDepthMap[b].isValid
          /\ ~RegOccludes(reduce.start[b], reduce.start[a])

(*------------------------------- C13 -----------------------------------*)
\* C13: observing a cell reads and writes only that cell.  While the observeDepth workers
\* run, a cell no worker has visited yet is as it was and every visited cell holds what
\* observeDepthRow makes of its own prior state, whatever the split of the rows and the
\* interleaving of the workers.
C13_CellLocal ==
    reduce.job = "observeDepth" =>
        \A idx \in Cells :
            currentDepthMap[idx] =
                IF idx \in reduce.done
                THEN observeDepthRow(reduce.start, JobContext)[idx].hyp
                ELSE reduce.start[idx]
\* a finished observeDepth whose workers did not run row by row and changed two cells
C13_Interleaved ==
    /\ reduce.job = "observeDepth"
    /\ reduce.done = ObserveCells
    /\ reduce.outOfOrder
    /\ Cardinality({ idx \in ObserveCells : currentDepthMap[idx] # reduce.start[idx] }) >= 2

(*------------------------------- C14 -----------------------------------*)
\* the shares this map holds on the frames' active mutexes when f is its active keyframe
SharesFor(f) == [g \in FrameIds |-> IF g = f THEN 1 ELSE 0]
LockFollowsKeyFrame ==
    /\ \A i \in 1 .. Len(calls) : calls[i] # "lock_error"
    /\ IF Alive
       THEN activeKeyFramelock = activeKeyFrame /\ activeMutex = SharesFor(activeKeyFrame)
       ELSE activeKeyFramelock = 0 /\ activeMutex = SharesFor(0)

\* C14: at the end of every public operation the map holds the active lock of its
\* active keyframe, once, exactly when an active keyframe is set, and holds no other
\* frame's lock: the seeding methods and createKeyFrame take the new keyframe's lock and
\* give back the previous one, invalidate() clears the keyframe and gives the lock back,
\* and an invalidate() or a destruction that finds no active keyframe unlocks nothing.
C14_LockFollowsKeyFrame ==
    /\ []LockFollowsKeyFrame
    /\ [][ /\ lastOp' \in { "initializeRandomly", "initializeFromGTDepth", "setFromExistingKF",
                            "createKeyFrame" } /\ nOps' = nOps + 1 =>
                  /\ activeKeyFrame' # 0
                  /\ activeMutex'[activeKeyFrame'] = 1
                  /\ activeKeyFrame # activeKeyFrame' /\ activeKeyFrame # 0 =>
                         activeMutex[activeKeyFrame] = 1 /\ activeMutex'[activeKeyFrame] = 0
           /\ lastOp' \in { "invalidate", "~DepthMap" } /\ activeKeyFrame # 0 /\ Alive =>
                  calls' = << "unlock" >> /\ activeMutex'[activeKeyFrame] = 0
           /\ lastOp' \in { "invalidate", "~DepthMap" } /\ activeKeyFrame = 0 /\ Alive =>
                  calls' = << >> /\ activeMutex' = activeMutex
           /\ lastOp' = "invalidate" => activeKeyFrame' = 0
      ]_vars
\* the map is destroyed after a keyframe swap and an invalidate()
C14_DestroyedAfterInvalidate ==
    /\ lastOp = "~DepthMap"
    /\ calls = << >>
    /\ activeKeyFrame = 0
    /\ nOps >= 2
    /\ rescaleFactor # One
(*------------------------------- C15 -----------------------------------*)
\* the occlusion test holds between the two warped hypotheses
Occluding == PropOccludes(fusion.a, fusion.b.idepth, fusion.b.idepth_var)
\* the one of the two with the larger inverse depth, as propagateDepth installs it
NearerOf(a, b) ==
    IF RGt(a.idepth, b.idepth) THEN Hyp3(a.idepth, a.idepth_var, a.validity_counter)
    ELSE Hyp3(b.idepth, b.idepth_var, b.validity_counter)

\* C15: when two warped hypotheses arrive at one destination cell of propagateDepth and
\* the occlusion test DIFF_FAC_PROP_MERGE*diff^2 > new_var + targetBest->idepth_var
\* holds, the cell ends up holding the nearer one (larger idepth) with its own variance
\* and validity counter, in either order of arrival.
C15_NearerSurvives ==
    (fusion.law = "propagateDepth" /\ Occluding) =>
        /\ fusion.a.idepth # fusion.b.idepth
        /\ fusion.ab = NearerOf(fusion.a, fusion.b)
        /\ fusion.ba = NearerOf(fusion.a, fusion.b)
\* the nearer hypothesis arrived second and replaced a farther one of other variance and
\* validity
C15_FartherReplaced ==
    /\ fusion.law = "propagateDepth"
    /\ Occluding
    /\ RLt(fusion.a.idepth, fusion.b.idepth)
    /\ fusion.a.idepth_var # fusion.b.idepth_var
    /\ fusion.a.validity_counter # fusion.b.validity_counter
    /\ fusion.ab.idepth = fusion.b.idepth
    /\ fusion.ab.idepth_var = fusion.b.idepth_var
    /\ fusion.ab.validity_counter = fusion.b.validity_counter
(*------------------------------- C16 -----------------------------------*)
\* C16: observeDepth never makes valid a cell whose keyframe max-gradient is below
\* MIN_ABS_GRAD_CREATE, whatever the reference frames and the prior map: a cell of that
\* gradient that was invalid before observeDepth is invalid after it.
C16_NoCreateBelowGradient ==
    [][ StepOf("updateKeyframe") =>
            \A idx \in Cells :
                (MaxGradients(activeKeyFrame)[idx] < MIN_ABS_GRAD_CREATE
                     /\ ~currentDepthMap[idx].isValid)
                    => ~observed'[idx].hyp.isValid
      ]_vars
\* observeDepth visited an invalid cell of too small a gradient and left it alone, and
\* created a hypothesis in another cell
C16_WeakCellPassed ==
    /\ lastOp = "updateKeyframe"
    /\ \E idx \in ObserveCells, jdx \in ObserveCells :
          /\ MaxGradients(activeKeyFrame)[idx] < MIN_ABS_GRAD_CREATE
          /\ observed[idx].tag = "passed"
          /\ ~observed[idx].hyp.isValid
          /\ observed[idx].hyp.blacklisted >= MIN_BLACKLIST
          /\ observed[jdx].tag = "created"
(*------------------------------- C17 -----------------------------------*)
StatusCodes == { RInt(-1), RInt(-2), RInt(-3), RInt(-4), RInt(-5) }
\* C17 as stated: doLineStereo returns either a match error >= 0, with result_idepth,
\* result_var and result_eplLength all set, or exactly one of the status codes -1, -2,
\* -3, -4, -5; it never returns any other negative value.
C17_AsStated ==
    stereo.call = "doLineStereo" =>
        \/ RGe(stereo.out.error, Zero) /\ stereo.out.resultsSet
        \/ stereo.out.error \in StatusCodes
(*------------------------------- C18 -----------------------------------*)
\* what a -2 of the stereo search does to the counter, the variance and the valid flag
\* of an existing hypothesis
BadMatchEffect(prior, post) ==
    /\ post.validity_counter =
           (IF prior.validity_counter - VALIDITY_COUNTER_DEC < 0 THEN 0
            ELSE prior.validity_counter - VALIDITY_COUNTER_DEC)
    /\ post.idepth_var = RMul(prior.idepth_var, FAIL_VAR_INC_FAC)
    /\ post.isValid = ~RGt(post.idepth_var, MAX_VAR)
\* C18 as stated: when stereo returns -2 for an existing hypothesis, observeDepthUpdate
\* decrements validity_counter (not below 0), multiplies idepth_var by FAIL_VAR_INC_FAC,
\* invalidates the cell if the inflated variance exceeds MAX_VAR, and also decrements
\* the blacklisted counter.
C18_AsStated ==
    [][ StepOf("updateKeyframe") =>
            \A idx \in ObserveCells :
                observed'[idx].tag = "notGood" =>
                    /\ BadMatchEffect(currentDepthMap[idx], observed'[idx].hyp)
                    /\ observed'[idx].hyp.blacklisted = currentDepthMap[idx].blacklisted - 1
      ]_vars

\* C18, amended: when stereo returns -2 for an existing hypothesis, observeDepthUpdate
\* decrements validity_counter (not below 0), multiplies idepth_var by FAIL_VAR_INC_FAC
\* and, if the inflated variance exceeds MAX_VAR, invalidates the cell and decrements
\* the blacklisted counter; a cell that stays valid keeps its blacklisted counter.
C18_BlacklistOnInvalidation ==
    [][ StepOf("updateKeyframe") =>
            \A idx \in ObserveCells :
                observed'[idx].tag = "notGood" =>
                    /\ BadMatchEffect(currentDepthMap[idx], observed'[idx].hyp)
                    /\ observed'[idx].hyp.blacklisted =
                           (IF observed'[idx].hyp.isValid THEN currentDepthMap[idx].blacklisted
                            ELSE currentDepthMap[idx].blacklisted - 1)
      ]_vars
\* a -2 that left the cell valid, with an inflated variance and an untouched blacklist
\* counter
C18_BadMatchKept ==
    /\ lastOp = "updateKeyframe"
    /\ \E idx \in ObserveCells :
          /\ observed[idx].tag = "notGood"
          /\ observed[idx].hyp.isValid
          /\ observed[idx].hyp.blacklisted = 0
          /\ RGt(observed[idx].hyp.idepth_var, Zero)
          /\ observed[idx].hyp.nextStereoFrameMinID = 0
(*------------------------------- C19 -----------------------------------*)
\* C19: when stereo returns -1 (out of bounds) or -3 (large residual) for an existing
\* hypothesis, observeDepthUpdate leaves every field of the cell as it was (valid flag,
\* idepth, idepth_var, the smoothed fields, validity_counter, blacklisted,
\* nextStereoFrameMinID) and reports no success.
C19_Retained ==
    [][ StepOf("updateKeyframe") =>
            \A idx \in ObserveCells :
                observed'[idx].tag \in { "oob", "notFound" } =>
                    /\ currentDepthMap[idx].isValid
                    /\ observed'[idx].hyp = currentDepthMap[idx]
      ]_vars
\* a -3 for a cell holding a hypothesis with a positive validity counter and a skip set
C19_NotFoundKept ==
    /\ lastOp = "updateKeyframe"
    /\ \E idx \in ObserveCells :
          /\ observed[idx].tag = "notFound"
          /\ observed[idx].hyp.isValid
          /\ observed[idx].hyp.validity_counter > 0
          /\ RGt(observed[idx].hyp.idepth_var, Zero)
(*------------------------------- C20 -----------------------------------*)
\* the cells the observeDepth in progress has updated successfully
UpdatedCells ==
    { idx \in reduce.done : ObserveCell(reduce.start[idx], idx, JobContext).tag = "updated" }
\* the smaller of two variances
RMin(a, b) == IF RLt(b, a) THEN b ELSE a
\* w * var' with var' = old idepth_var * SUCC_VAR_INC_FAC and
\* w = result_var / (result_var + var')
WeightedVar(old_var, result_var) ==
    RMul(RDiv(result_var, RAdd(result_var, RMul(old_var, SUCC_VAR_INC_FAC))),
         RMul(old_var, SUCC_VAR_INC_FAC))
\* C20: a successful observation update never increases the variance of the cell: after
\* it idepth_var = min(old idepth_var, w * old idepth_var * SUCC_VAR_INC_FAC) with
\* w = result_var / (result_var + old idepth_var * SUCC_VAR_INC_FAC), and the cell stays
\* valid.
C20_VarianceNeverGrows ==
    reduce.job = "observeDepth" =>
        \A idx \in UpdatedCells :
            /\ reduce.start[idx].isValid
            /\ currentDepthMap[idx].isValid
            /\ RLe(currentDepthMap[idx].idepth_var, reduce.start[idx].idepth_var)
            /\ currentDepthMap[idx].idepth_var =
                   RMin(reduce.start[idx].idepth_var,
                        WeightedVar(reduce.start[idx].idepth_var, JobContext.stereo[idx].var))
\* a successful update with a much less certain match: the weighted variance would be
\* the larger one, and the cell keeps the variance it had
C20_LargerVarianceRefused ==
    /\ reduce.job = "observeDepth"
    /\ \E idx \in UpdatedCells :
          /\ currentDepthMap[idx].isValid
          /\ currentDepthMap[idx].idepth_var = reduce.start[idx].idepth_var
          /\ RGt(WeightedVar(reduce.start[idx].idepth_var, JobContext.stereo[idx].var),
                 reduce.start[idx].idepth_var)

(***************************************************************************)
(* C21: for a keyframe that is not reactivated, observeDepthUpdate never    *)
(* runs stereo for a cell against a reference frame whose id is smaller     *)
(* than the cell's nextStereoFrameMinID: if that id lies beyond the newest  *)
(* reference frame the cell is skipped unchanged, otherwise the frame taken *)
(* is one of the window and has id >= nextStereoFrameMinID.                 *)
(***************************************************************************)
C21_NoStereoBeforeMinID ==
    (window.call = "observeDepthUpdate" /\ ~window.reactivated) =>
        LET minID == window.target.nextStereoFrameMinID
            refs == window.refs
        IN  IF minID > FrameId(refs[Len(refs)])
            THEN /\ window.refFrame = 0
                 /\ window.out = [hyp |-> window.target, tag |-> "skip"]
            ELSE /\ window.out.tag # "skip"
                 /\ \E i \in 1 .. Len(refs) : refs[i] = window.refFrame
                 /\ FrameId(window.refFrame) >= minID
\* a cell whose nextStereoFrameMinID falls into a gap between two frames of the window:
\* stereo ran against the later one
C21_TakenPastGap ==
    /\ window.call = "observeDepthUpdate"
    /\ ~window.reactivated
    /\ window.target.nextStereoFrameMinID > FrameId(window.refs[1])
    /\ window.refFrame # 0
    /\ FrameId(window.refFrame) > window.target.nextStereoFrameMinID
    /\ window.out.tag = "updated"

(***************************************************************************)
(* C22: in propagateDepth a source hypothesis whose warped point has       *)
(* p.z <= 0, or whose projection (u', v') lies outside                     *)
(* [2.1, W-3.1] x [2.1, H-3.1], is dropped: it never installs, replaces or *)
(* merges into any cell of the new map.                                    *)
(***************************************************************************)
\* the projection lies outside [2.1, W-3.1] x [2.1, H-3.1]
ProjectedOutside(wp) ==
    \/ RLt(wp.u_new, R(21, 10)) \/ RGt(wp.u_new, R(10 * W - 31, 10))
    \/ RLt(wp.v_new, R(21, 10)) \/ RGt(wp.v_new, R(10 * H - 31, 10))
C22_AsStated ==
    (warp.call = "propagateDepth"
        /\ (RLe(warp.wp.pn[3], Zero) \/ ProjectedOutside(warp.wp))) =>
        warp.after = warp.before

(***************************************************************************)
(* C23: regularizeDepthMapFillHoles creates a hypothesis in an invalid     *)
(* cell only if the cell's keyframe max-gradient is >= MIN_ABS_GRAD_DECREASE*)
(* and its 5x5 validity window sum exceeds the creation threshold; the     *)
(* created cell takes the inverse-variance weighted mean of the valid      *)
(* cells of the 5x5 window of the snapshot as idepth, VAR_RANDOM_INIT as   *)
(* idepth_var and 0 as validity_counter, and the window holds at least one *)
(* valid cell.  The snapshot is the map as finalizeKeyFrame finds it, or   *)
(* as observeDepth left it in updateKeyframe; the filled map is the        *)
(* snapshot regularizeDepthMap takes right after (otherDepthMap).          *)
(***************************************************************************)
\* the valid cells of the 5x5 window of idx
ValidNeighbours(map, idx) == { j \in Window5(idx) : map[j].isValid }
\* sum(idepth/var) / sum(1/var) over them
WeightedMean(map, idx) ==
    RDiv(RSumOver([j \in Cells |-> RDiv(map[j].idepth, map[j].idepth_var)], ValidNeighbours(map, idx)),
         RSumOver([j \in Cells |-> RInv(map[j].idepth_var)], ValidNeighbours(map, idx)))
\* the threshold as the claim words it: VAL_SUM_MIN_FOR_UNBLACKLIST for the cells that
\* are not blacklisted, VAL_SUM_MIN_FOR_CREATE otherwise
ThresholdAsStated(dest) ==
    IF dest.blacklisted >= MIN_BLACKLIST THEN VAL_SUM_MIN_FOR_UNBLACKLIST
    ELSE VAL_SUM_MIN_FOR_CREATE
\* the threshold by cell: VAL_SUM_MIN_FOR_UNBLACKLIST for the blacklisted cells
ThresholdByCell(dest) ==
    IF dest.blacklisted >= MIN_BLACKLIST THEN VAL_SUM_MIN_FOR_CREATE
    ELSE VAL_SUM_MIN_FOR_UNBLACKLIST
\* the map hole filling starts from in the step taken
FillSnapshot ==
    IF lastOp' = "updateKeyframe" THEN [idx \in Cells |-> observed'[idx].hyp]
    ELSE currentDepthMap
\* everything the claim says of a created cell but the threshold
CreatedAsMean(snapshot, filled, grad, idx, mean) ==
    /\ grad[idx] >= MIN_ABS_GRAD_DECREASE
    /\ filled[idx].idepth = mean
    /\ filled[idx].idepth_var = VAR_RANDOM_INIT_INITIAL
    /\ filled[idx].validity_counter = 0
    /\ ValidNeighbours(snapshot, idx) # {}

\* C23 as stated
C23_AsStated ==
    [][ (StepOf("updateKeyframe") \/ StepOf("finalizeKeyFrame")) =>
            \A idx \in Cells :
                (~FillSnapshot[idx].isValid /\ otherDepthMap'[idx].isValid) =>
                    /\ DirectWindowSum(FillSnapshot, idx) > ThresholdAsStated(FillSnapshot[idx])
                    /\ CreatedAsMean(FillSnapshot, otherDepthMap', MaxGradients(activeKeyFrame),
                                     idx, WeightedMean(FillSnapshot, idx))
      ]_vars

\* C23, amended: the threshold is VAL_SUM_MIN_FOR_CREATE for a cell that is not
\* blacklisted and VAL_SUM_MIN_FOR_UNBLACKLIST for a blacklisted one, and the idepth is
\* the UNZERO of the weighted mean.
C23_FillRule ==
    [][ (StepOf("updateKeyframe") \/ StepOf("finalizeKeyFrame")) =>
            \A idx \in Cells :
                (~FillSnapshot[idx].isValid /\ otherDepthMap'[idx].isValid) =>
                    /\ DirectWindowSum(FillSnapshot, idx) > ThresholdByCell(FillSnapshot[idx])
                    /\ CreatedAsMean(FillSnapshot, otherDepthMap', MaxGradients(activeKeyFrame),
                                     idx, UNZERO(WeightedMean(FillSnapshot, idx)))
      ]_vars
\* hole filling created a cell from neighbours of different variance
C23_FilledFromUnequal ==
    /\ lastOp \in { "updateKeyframe", "finalizeKeyFrame" }
    /\ \E idx \in FillCells :
          /\ otherDepthMap[idx].isValid
          /\ otherDepthMap[idx].validity_counter = 0
          /\ otherDepthMap[idx].idepth_var = VAR_RANDOM_INIT_INITIAL
          /\ \E j \in ValidNeighbours(otherDepthMap, idx), k \in ValidNeighbours(otherDepthMap, idx) :
                /\ otherDepthMap[j].validity_counter > 0
                /\ otherDepthMap[k].validity_counter > 0
                /\ otherDepthMap[j].idepth_var # otherDepthMap[k].idepth_var
                /\ otherDepthMap[j].idepth # otherDepthMap[k].idepth

(***************************************************************************)
(* C24: regularizeDepthMap invalidates a valid cell in exactly two cases:  *)
(* the summed validity_counter of its non-occluding valid 5x5 neighbours   *)
(* is below validityTH (its blacklisted counter is then decremented), or   *)
(* occlusion removal is on and numOccluding > numNotOccluding; with        *)
(* occlusion removal off, occluding neighbours never cause an              *)
(* invalidation, and every other valid cell of the regularized range gets  *)
(* idepth_smoothed = UNZERO(sum/sumIvar), idepth_var_smoothed = 1/sumIvar. *)
(***************************************************************************)
\* a regularizeDepthMap whose workers have all finished
RegularizeDone == reduce.job = "regularizeDepthMap" /\ reduce.done = RegCells
\* the valid neighbours of idx (itself included) in map, split by the occlusion test
\* DIFF_FAC_SMOOTHING*diff*diff > source var + centre var
NotOccludingAt(map, idx) ==
    { j \in Window5(idx) :
         /\ map[j].isValid
         /\ ~RGt(RMul(DIFF_FAC_SMOOTHING, RSq(RSub(map[j].idepth, map[idx].idepth))),
                 RAdd(map[j].idepth_var, map[idx].idepth_var)) }
OccludingAt(map, idx) ==
    { j \in Window5(idx) :
         /\ map[j].isValid
         /\ j \notin NotOccludingAt(map, idx)
         /\ RGt(map[j].idepth, map[idx].idepth) }
\* val_sum < validityTH
TooFewValid(map, idx) ==
    ISumOver([j \in Cells |-> map[j].validity_counter], NotOccludingAt(map, idx))
        < VAL_SUM_MIN_FOR_KEEP
\* the weight of neighbour j: 1 / (var + squared distance * REG_DIST_VAR)
SmoothingWeight(map, idx, j) ==
    RInv(RAdd(map[j].idepth_var,
              RMul(RInt((XOf(j) - XOf(idx)) ^ 2 + (YOf(j) - YOf(idx)) ^ 2), REG_DIST_VAR)))
SumIvar(map, idx) ==
    RSumOver([j \in Cells |-> SmoothingWeight(map, idx, j)], NotOccludingAt(map, idx))
SumIdepth(map, idx) ==
    RSumOver([j \in Cells |-> RMul(map[j].idepth, SmoothingWeight(map, idx, j))],
             NotOccludingAt(map, idx))
C24_InvalidatesInTwoCases ==
    RegularizeDone =>
        \A idx \in RegCells :
            reduce.start[idx].isValid =>
                LET before == reduce.start
                    occluded == /\ reduce.removeOcclusions
                                /\ Cardinality(OccludingAt(before, idx))
                                      > Cardinality(NotOccludingAt(before, idx))
                IN  /\ ~currentDepthMap[idx].isValid <=> (TooFewValid(before, idx) \/ occluded)
                    /\ TooFewValid(before, idx) =>
                          currentDepthMap[idx].blacklisted = before[idx].blacklisted - 1
                    /\ currentDepthMap[idx].isValid =>
                          /\ currentDepthMap[idx].idepth_smoothed =
                                UNZERO(RDiv(SumIdepth(before, idx), SumIvar(before, idx)))
                          /\ currentDepthMap[idx].idepth_var_smoothed = RInv(SumIvar(before, idx))
\* occlusion removal off: a cell with more occluding than non-occluding neighbours and
\* enough validity around it stayed valid and was smoothed
C24_OccludedKept ==
    /\ RegularizeDone
    /\ ~reduce.removeOcclusions
    /\ \E idx \in RegCells :
          /\ reduce.start[idx].isValid
          /\ Cardinality(OccludingAt(reduce.start, idx))
                > Cardinality(NotOccludingAt(reduce.start, idx))
          /\ currentDepthMap[idx].isValid
          /\ currentDepthMap[idx].idepth_var_smoothed # reduce.start[idx].idepth_var_smoothed

(***************************************************************************)
(* C25: sub-pixel refinement in doLineStereo follows the decision table on *)
(* the signs of the four half-gradients: no refinement when the two        *)
(* central gradients (g_prev_curr, g_next_curr) have the same sign;        *)
(* interpolation on the previous side when only the previous side has a    *)
(* zero crossing; interpolation on the next side when only the next side   *)
(* has one; no interpolation (integer argmin kept) when both sides cross.  *)
(***************************************************************************)
\* the variables of the search when the loop of the call in stereo has ended
Searched == SearchLoop(SearchStart(stereo.garbage), 0, stereo.in.ref, stereo.in.key)
\* the call went through the sub-pixel step and returned a match
Refined ==
    /\ stereo.call = "doLineStereo"
    /\ stereo.in.front = 0
    /\ stereo.in.useSubpixelStereo
    /\ stereo.out.resultsSet
\* the four half-gradients
G_prev_prev(s) == RNeg(RSub(s.prev_error, s.prev_diff))
G_prev_curr(s) == RSub(s.min_error, s.prev_diff)
G_next_curr(s) == RNeg(RSub(s.min_error, s.next_diff))
G_next_next(s) == RSub(s.next_error, s.next_diff)
\* two gradients differ in sign: exactly one of them is negative
SignsDiffer(a, b) == RLt(a, Zero) # RLt(b, Zero)
PrevCrosses(s) == SignsDiffer(G_prev_prev(s), G_prev_curr(s))
NextCrosses(s) == SignsDiffer(G_next_next(s), G_next_curr(s))
\* the side a table picks once the central gradients let it look at the crossings
SideByCrossing(s) ==
    IF PrevCrosses(s) /\ ~NextCrosses(s) THEN "prev"
    ELSE IF NextCrosses(s) /\ ~PrevCrosses(s) THEN "next"
    ELSE "none"
\* the side the call interpolated on
SideTaken == IF stereo.out.side \in { "prev", "next" } THEN stereo.out.side ELSE "none"

\* C25 as stated
C25_AsStated ==
    Refined =>
        SideTaken = IF ~SignsDiffer(G_prev_curr(Searched), G_next_curr(Searched)) THEN "none"
                    ELSE SideByCrossing(Searched)

\* C25, amended: no refinement when the two central gradients differ in sign, or when
\* enablePrintDebugInfo is on and the winner lacks a neighbour (prev_error or next_error
\* negative); otherwise by the crossings; without interpolation the integer argmin and
\* its error are kept.
C25_DecisionTable ==
    Refined =>
        /\ SideTaken =
              IF stereo.in.enablePrintDebugInfo
                 /\ (RLt(Searched.prev_error, Zero) \/ RLt(Searched.next_error, Zero))
              THEN "none"
              ELSE IF SignsDiffer(G_prev_curr(Searched), G_next_curr(Searched)) THEN "none"
              ELSE SideByCrossing(Searched)
        /\ SideTaken = "none" => stereo.out.error = Searched.min_error
\* a winner with both neighbours searched, central gradients of one sign and a zero
\* crossing on the previous side only: interpolated there
C25_InterpolatedPrev ==
    /\ Refined
    /\ RGe(Searched.prev_error, Zero) /\ RGe(Searched.next_error, Zero)
    /\ ~SignsDiffer(G_prev_curr(Searched), G_next_curr(Searched))
    /\ PrevCrosses(Searched) /\ ~NextCrosses(Searched)
    /\ stereo.out.side = "prev"
    /\ stereo.out.error # Searched.min_error

(***************************************************************************)
(* C26: at the end of the search loop of doLineStereo, for every sequence  *)
(* of window errors, min_error/curr_argmin are the smallest error and the  *)
(* first index attaining it, and second_min_error/second_argmin are the    *)
(* smallest error and its index among all window positions other than     *)
(* curr_argmin.                                                            *)
(***************************************************************************)
\* the call in stereo entered the search loop
SearchEntered == stereo.call = "doLineStereo" /\ stereo.in.front = 0
\* the window positions of the call and the SSD at position i
Positions == 0 .. (Len(stereo.in.ref) - 5)
ErrorAt(i) ==
    LET e == [k \in 1 .. 5 |-> stereo.in.ref[i + k] - stereo.in.key[k]]
    IN  e[1] * e[1] + e[2] * e[2] + e[3] * e[3] + e[4] * e[4] + e[5] * e[5]
C26_BestAndSecondBest ==
    SearchEntered =>
        LET s == Searched
            a == s.curr_argmin
            b == s.second_argmin
        IN  /\ a \in Positions
            /\ s.min_error = RInt(ErrorAt(a))
            /\ \A i \in Positions : ErrorAt(a) <= ErrorAt(i)
            /\ \A i \in Positions : i < a => ErrorAt(a) < ErrorAt(i)
            /\ Positions # {a} =>
                  /\ b \in Positions \ {a}
                  /\ s.second_min_error = RInt(ErrorAt(b))
                  /\ \A i \in Positions \ {a} : ErrorAt(b) <= ErrorAt(i)
\* a search of three positions in which the best so far was beaten and became the second
\* best, ahead of a third position with a larger error
C26_WinnerDemoted ==
    /\ SearchEntered
    /\ Len(stereo.in.ref) = 7
    /\ Searched.second_argmin < Searched.curr_argmin
    /\ Searched.second_argmin >= 0
    /\ \E i \in Positions :
          /\ i \notin { Searched.curr_argmin, Searched.second_argmin }
          /\ ErrorAt(i) > ErrorAt(Searched.second_argmin)
    /\ ErrorAt(Searched.second_argmin) > ErrorAt(Searched.curr_argmin)

(***************************************************************************)
(* C27: at the end of the search loop of doLineStereo, prev_error is the   *)
(* SSD at window position argmin-1 and prev_diff the dot product of the    *)
(* residual vectors at positions argmin-1 and argmin, next_error is the    *)
(* SSD at argmin+1 and next_diff the dot product of the residual vectors   *)
(* at argmin and argmin+1; when argmin is the first or the last position   *)
(* searched, the missing side is marked (negative error) and no sub-pixel  *)
(* interpolation uses it.                                                  *)
(***************************************************************************)
\* the dot product of the residual vectors at positions i and j
ResidualDot(i, j) ==
    LET e == [k \in 1 .. 5 |-> stereo.in.ref[i + k] - stereo.in.key[k]]
        f == [k \in 1 .. 5 |-> stereo.in.ref[j + k] - stereo.in.key[k]]
    IN  e[1] * f[1] + e[2] * f[2] + e[3] * f[3] + e[4] * f[4] + e[5] * f[5]
LastPosition == Len(stereo.in.ref) - 5
\* the bookkeeping of the neighbours of the winner
NeighboursKept ==
    SearchEntered =>
        LET s == Searched
            a == s.curr_argmin
        IN  /\ a > 0 => /\ s.prev_error = RInt(ErrorAt(a - 1))
                        /\ s.prev_diff = RInt(ResidualDot(a - 1, a))
            /\ a = 0 => RLt(s.prev_error, Zero)
            /\ a < LastPosition => /\ s.next_error = RInt(ErrorAt(a + 1))
                                   /\ s.next_diff = RInt(ResidualDot(a, a + 1))
            /\ a = LastPosition => RLt(s.next_error, Zero)
\* C27 as stated; "no interpolation uses the missing side" is taken in its weakest
\* sense: the call does not interpolate on the side that is missing
C27_AsStated ==
    /\ NeighboursKept
    /\ Refined =>
          /\ Searched.curr_argmin = 0 => stereo.out.side # "prev"
          /\ Searched.curr_argmin = LastPosition => stereo.out.side # "next"

(***************************************************************************)
(* C28: initializeRandomly seeds the map from the gradient mask alone:     *)
(* after the call, whatever the map held before, a cell is valid if and    *)
(* only if its max-gradient exceeds MIN_ABS_GRAD_CREATE and it is not a    *)
(* border cell, and every valid cell has idepth in [0.5, 1.5] with both    *)
(* variances equal to VAR_RANDOM_INIT_INITIAL; no hypothesis of the        *)
(* previous map survives.                                                  *)
(***************************************************************************)
\* the hypothesis of a cell that initializeRandomly has seeded
RandomlySeeded(h) ==
    /\ RGe(h.idepth, R(1, 2))
    /\ RLe(h.idepth, R(3, 2))
    /\ h.idepth_var = VAR_RANDOM_INIT_INITIAL
    /\ h.idepth_var_smoothed = VAR_RANDOM_INIT_INITIAL
\* the gradient mask of the active keyframe at a cell
InGradientMask(idx) == MaxGradients(activeKeyFrame)[idx] > MIN_ABS_GRAD_CREATE
\* C28 as stated, a border cell being one in the outermost row or column of the image
C28_AsStated ==
    lastOp = "initializeRandomly" =>
        \A idx \in Cells :
            /\ currentDepthMap[idx].isValid <=> (InGradientMask(idx) /\ idx \in RandomInitCells)
            /\ currentDepthMap[idx].isValid => RandomlySeeded(currentDepthMap[idx])

(***************************************************************************)
(* C29: every sample position read by doLineStereo after its bounds checks *)
(* pass lies inside the image with the one-pixel margin bilinear           *)
(* interpolation needs: the five keyframe taps, the four initial reference *)
(* taps around pFar, and in every loop iteration the tap at                *)
(* search_point + 2*ref_search_step, up to and including the last          *)
(* iteration before the loop exits past pClose.                            *)
(***************************************************************************)
\* the four texels getInterpolatedElement reads at p are pixels of the image
Samplable(p) ==
    /\ RGe(p[1], Zero) /\ RTrunc(p[1]) + 1 <= image_size[1] - 1
    /\ RGe(p[2], Zero) /\ RTrunc(p[2]) + 1 <= image_size[2] - 1
AllSamplable(taps) == \A i \in 1 .. Len(taps) : Samplable(taps[i])
\* C29 as stated, the margin taken in its weakest sense: no texel of a bilinear read
\* falls outside the image
C29_AsStated ==
    (epl # NoEpl /\ epl.out.status = 0) =>
        /\ AllSamplable(epl.out.key)
        /\ AllSamplable(epl.out.ref)
        /\ AllSamplable(epl.out.loop)

(***************************************************************************)
(* C30: regularizeDepthMap (either mode) never makes an invalid cell valid *)
(* and never changes the idepth, idepth_var or validity_counter of any     *)
(* cell: the set of valid cells after the pass is a subset of the set      *)
(* before it, and only isValid, blacklisted, idepth_smoothed and           *)
(* idepth_var_smoothed of cells inside rows and columns [2, size-2) can    *)
(* differ.                                                                 *)
(***************************************************************************)
\* what regularizeDepthMap may not touch in a cell
SameEstimate(a, b) ==
    /\ a.idepth = b.idepth
    /\ a.idepth_var = b.idepth_var
    /\ a.validity_counter = b.validity_counter
    /\ a.nextStereoFrameMinID = b.nextStereoFrameMinID
\* C30, against the map the pass started from, while the workers run and when they
\* have finished
C30_RegularizeFrame ==
    reduce.job = "regularizeDepthMap" =>
        \A idx \in Cells :
            /\ currentDepthMap[idx].isValid => reduce.start[idx].isValid
            /\ SameEstimate(currentDepthMap[idx], reduce.start[idx])
            /\ idx \notin RegCells => currentDepthMap[idx] = reduce.start[idx]
\* a finished pass that changed the smoothed estimate of a cell it kept
C30_PassChangedMap ==
    /\ RegularizeDone
    /\ \E idx \in RegCells :
          /\ currentDepthMap[idx].isValid
          /\ currentDepthMap[idx].idepth_smoothed # reduce.start[idx].idepth_smoothed
          /\ currentDepthMap[idx].idepth_smoothed # currentDepthMap[idx].idepth

====
